---- MODULE Spec2Model ----
(***************************************************************************)
(* State-machine model of the patent-search client's orchestration layer:  *)
(* PatentSearchApp (app.js), SearchManager (search.js), ChatManager        *)
(* (chat.js), ExcelManager (excel.js), UIManager (ui.js) and the requests  *)
(* APIService (api.js) has in flight.                                      *)
(*                                                                         *)
(* One action is one run of a handler between two suspension points of the *)
(* single-threaded event loop: from a user event (or a timer, or a network *)
(* response) up to the next await on the network or on a timer.            *)
(* Input fields that the program only reads (GPSS key, technical           *)
(* description, condition form) are read with \E at the moment the handler *)
(* reads them: the user may edit them between any two handlers.            *)
(* The message a handler shows (showError / showSuccess) is an output of   *)
(* the step: for every handler an operator <handler>Message gives it as a  *)
(* function of the state and the inputs, and the handler's action branches *)
(* on that operator.                                                       *)
(***************************************************************************)
EXTENDS Integers, Sequences, FiniteSets, TLC

\* ---------------------------------------------------------------- bounds
\* Requests that may be outstanding at once.
MaxInFlight == 2

\* Condition rows a user adds by hand (autoGenerate makes one per group).
MaxRows == 2

\* Keyword spans a user drops on one row.
MaxKeywords == 2

\* Pending 500 ms delays of autoGenerateAndSearch.
MaxPendingAuto == 1

\* Timer ticks modelled per progress animation.
MaxTicks == 1

\* Timer ticks per animation where the animation is followed to its cap:
\* the 10 s animation of generateKeywords is at 90 after nine ticks.
MaxCapTicks == 10

\* Files handed to the export collaborator (XLSX.writeFile) or downloaded.
MaxDownloads == 1

\* Session ids generated in one run of the program.
MaxSessionIds == 3
\* Largest retry count a call of requestWithRetry is made with.
MaxRetryCount == 4
\* Longest transcript (entries of chatHistory).
MaxTurns == 4
\* Most confirm dialogs open at once.
MaxDialogs == 1
\* A second delay for requestWithRetry, besides the default one.
ShortDelay == 250

\* ------------------------------------------------------ program constants
\* description.length < 50 is rejected.
MinDescriptionLength == 50

\* apiKey.length < 16 is rejected by testGpssConnection.
MinApiKeyLength == 16

\* startProgressAnimation caps the simulated progress.
ProgressCap == 90
\* Defaults of requestWithRetry's maxRetries and delay parameters.
DefaultMaxRetries == 3
DefaultDelay == 1000

\* ----------------------------------------------------------------- values
\* JavaScript null in the place of a session id (ids are 1, 2, ...).
Null == 0

\* JavaScript null in the place of a record list.
NullList == <<"null">>

Modes == {"tech", "condition", "excel"}

Bars == {"progress-fill", "progress-fill-condition", "progress-fill-excel"}

\* Record lists a backend response may carry.
RecordLists == {<<>>, <<"p1">>}

\* Keywords of the backend's keyword groups.
Keywords == {"k1", "k2"}

\* Texts a drop may carry (any text/plain drag data): a keyword, a keyword
\* with surrounding white space, or a blank text.
DropTexts == Keywords \cup {" k1", ""}

Group(k, syn) == [keyword |-> k, synonyms |-> syn]

\* Contents of the GPSS key input, by length.
ApiKeys == {"", "short", "keyA"}

KeyLength(k) == CASE k = "" -> 0 [] k = "short" -> 8 [] OTHER -> 16

\* Lengths of the trimmed technical description.
DescriptionLengths == {0, 49, 50}

\* What the backend does with a request: a success body, a body without
\* the success flag, or a transport/HTTP error (request() throws).
Outcomes == {"success", "nosuccess", "error"}

\* Progress widths are kept in ninths of a percent, so that the timer's
\* increment 100 / (duration / 1000) is an integer for every duration used.
Pct(p) == 9 * p

Increment(duration) == (Pct(100) * 1000) \div duration

Min(a, b) == IF a < b THEN a ELSE b

VARIABLES
    app,            \* PatentSearchApp: isSearching, apiKeyVerified, currentSessionId, searchResults
    searchManager,  \* SearchManager: currentSessionId, generatedKeywords, searchResults
    chatManager,    \* ChatManager: chatEnabled, memoryEnabled, chatHistory,
                    \* currentSessionId, memoryStatus, and the confirm
                    \* dialogs clearChatMemory is waiting on (confirming)
    excelManager,   \* ExcelManager: selectedFile, currentAnalysisResults, isProcessing
    uiManager,      \* UIManager: progressIntervals, width (progress bars), patentList
    rows,           \* the .condition-row elements of #search-conditions
    inflight,       \* requests sent by APIService and not yet answered
    pendingAuto,    \* autoGenerateAndSearch calls waiting in Utils.delay(500)
    downloads,      \* files written by XLSX.writeFile or saved from an export response
    issued,         \* session ids Utils.generateSessionId has returned so far
    retry,          \* the activation of APIService.requestWithRetry: its
                    \* locals i, delay and lastError, and what it has done
    apiService      \* APIService: isConnected, and the activation of request():
                    \* the response fetch gave it and the error it threw

vars == <<app, searchManager, chatManager, excelManager, uiManager, rows,
          inflight, pendingAuto, downloads, issued, retry, apiService>>

\* No call of request() has been made.
NoCall == [isConnected |-> FALSE, state |-> "idle", caller |-> "",
           response |-> <<>>, error |-> <<>>]

\* No call of requestWithRetry has been made.
NoRetry == [status |-> "idle", maxRetries |-> 0, i |-> 0, delay |-> 0,
            lastError |-> 0, attempts |-> 0, waits |-> <<>>, result |-> "",
            first |-> 0]

\* ----------------------------------------------------------- session ids
\* Utils.generateSessionId: an id that was never returned before. A handler
\* that calls it sets issued' and is guarded by CanGenerate.
generateSessionId == issued + 1

CanGenerate == issued < MaxSessionIds

\* ------------------------------------------------------------- UIManager
NoTimer == [active |-> FALSE, progress |-> 0, increment |-> 0]

updateProgress(ui, bar, percent) == [ui EXCEPT !.width[bar] = Pct(percent)]

startProgressAnimation(ui, bar, duration) ==
    [ui EXCEPT !.progressIntervals[bar] =
        [active |-> TRUE, progress |-> 0, increment |-> Increment(duration)]]

completeProgress(ui, bar) ==
    [ui EXCEPT !.progressIntervals[bar] = NoTimer, !.width[bar] = Pct(100)]

\* A resetProgress that forgets clearInterval.
resetProgressKeepingTimer(ui, bar) == [ui EXCEPT !.width[bar] = 0]

resetProgress(ui, bar) ==
    [ui EXCEPT !.progressIntervals[bar] = NoTimer, !.width[bar] = 0]

\* A callback without the test against 90.
uncapped(progress) == progress

\* "if (progress > 90) { progress = 90; }" of the setInterval callback.
capped(progress) == Min(progress, Pct(ProgressCap))

\* The setInterval callback of startProgressAnimation, for the first ticks
\* callbacks of an animation.
ProgressTickWithin(bar, ticks) ==
    LET t == uiManager.progressIntervals[bar]
        p == capped(t.progress + t.increment)
    IN  /\ t.active
        /\ t.progress < ticks * t.increment
        /\ uiManager' = [uiManager EXCEPT !.progressIntervals[bar].progress = p,
                                          !.width[bar] = p]
        /\ UNCHANGED <<app, searchManager, chatManager, excelManager, rows,
                       inflight, pendingAuto, downloads, issued, retry, apiService>>

ProgressTick(bar) == ProgressTickWithin(bar, MaxTicks)

\* -------------------------------------------------------------- requests
\* Room for one more request started by the user.
CanDispatch == Cardinality(inflight) < MaxInFlight

NextRequestId(net) ==
    CHOOSE i \in 1 .. (MaxInFlight + 1) :
        /\ i \notin {r.id : r \in net}
        /\ \A j \in 1 .. (MaxInFlight + 1) : j \notin {r.id : r \in net} => i <= j

\* A request that leaves the session id to be filled in later.
RequestUnbound(net, kind, sid, description, selected) ==
    [id |-> NextRequestId(net), kind |-> kind, sid |-> Null,
     description |-> description, selected |-> selected]

\* A request as sent: the session id, the description (its length) and the
\* selected_keywords it carries (Null / 0 / <<>> when the request has no such
\* field).
Request(net, kind, sid, description, selected) ==
    [id |-> NextRequestId(net), kind |-> kind, sid |-> sid,
     description |-> description, selected |-> selected]

Outstanding(kind) == {r \in inflight : r.kind = kind}

\* ------------------------------------------- SearchManager: condition rows
\* String.prototype.trim on the texts of the model.
Trim(t) == IF t = " k1" THEN "k1" ELSE t

Contains(seq, x) == \E i \in 1 .. Len(seq) : seq[i] = x

\* [...new Set(seq)]: first occurrences, in order.
RECURSIVE Unique(_)
Unique(seq) ==
    IF seq = <<>> THEN <<>>
    ELSE LET rest == Unique(SubSeq(seq, 1, Len(seq) - 1))
             last == seq[Len(seq)]
         IN  IF Contains(rest, last) THEN rest ELSE Append(rest, last)

\* A filter that keeps blank texts.
AnyText(t) == TRUE \/ t = ""

NonBlank(t) == t # ""

\* The text read back from a .dropped-keyword span:
\* textContent.replace('x', '').trim().
SpanText(t) == Trim(t)

RECURSIVE spanTexts(_)
spanTexts(spans) ==
    IF spans = <<>> THEN <<>>
    ELSE <<SpanText(Head(spans))>> \o spanTexts(Tail(spans))

\* The <option> lists of createConditionRow; a new <select> shows the first.
FieldOptions == <<"TI", "AB", "CL">>

LogicOptions == <<"AND", "OR">>

createConditionRow ==
    [keywords |-> <<>>, field |-> FieldOptions[1], logic |-> LogicOptions[1]]

\* The row index.html starts with.
InitialConditionRow == [keywords |-> <<>>, field |-> "AB", logic |-> "AND"]

\* addKeywordToDropZone on one row: the keyword is compared with the texts
\* read back from the spans already there.
addKeywordToDropZone(row, keyword) ==
    IF Contains(spanTexts(row.keywords), keyword)
    THEN row
    ELSE [row EXCEPT !.keywords = Append(@, keyword)]

\* An addKeywords that adds the first term only.
addKeywordsFirstOnly(row, terms) ==
    IF terms = <<>> THEN row ELSE addKeywordToDropZone(row, Head(terms))

RECURSIVE addKeywords(_, _)
addKeywords(row, terms) ==
    IF terms = <<>> THEN row
    ELSE addKeywords(addKeywordToDropZone(row, Head(terms)), Tail(terms))

\* A clearAllConditions that empties every drop zone and keeps the rows.
clearAllConditionsKeepingRows(rs) ==
    [i \in 1 .. Len(rs) |-> [rs[i] EXCEPT !.keywords = <<>>]]

\* clearAllConditions: empties the first row, resets its selectors to their
\* first option and removes every other row.
clearAllConditions(rs) ==
    << [keywords |-> <<>>, field |-> FieldOptions[1], logic |-> LogicOptions[1]] >>

\* The forEach of autoGenerateConditions from group index gi (0-based) on.
RECURSIVE autoGenerateFrom(_, _, _)
autoGenerateFrom(rs, groups, gi) ==
    IF gi >= Len(groups) THEN rs
    ELSE LET group    == groups[gi + 1]
             allTerms == (IF group.keyword # "" THEN <<group.keyword>> ELSE <<>>)
                            \o group.synonyms
             target   == IF gi = 0 THEN rs[1] ELSE createConditionRow
             filled   == [addKeywords(target, allTerms) EXCEPT
                            !.field = "AB",
                            !.logic = IF gi < Len(groups) - 1 THEN "AND" ELSE @]
             next     == IF allTerms = <<>> THEN rs
                         ELSE IF gi = 0 THEN [rs EXCEPT ![1] = filled]
                         ELSE Append(rs, filled)
         IN  autoGenerateFrom(next, groups, gi + 1)

autoGenerateConditions(rs, groups) ==
    IF Len(groups) = 0 THEN clearAllConditions(rs)
    ELSE autoGenerateFrom(clearAllConditions(rs), groups, 0)

\* collectSearchConditions from row index i (1-based) on.
RECURSIVE collectFrom(_, _)
collectFrom(rs, i) ==
    IF i > Len(rs) THEN <<>>
    ELSE LET keywords == SelectSeq(spanTexts(rs[i].keywords), NonBlank)
             here == IF Len(rs[i].keywords) > 0 /\ Len(keywords) > 0
                     THEN << [keywords |-> keywords, field |-> rs[i].field,
                              logic |-> rs[i].logic, condition_index |-> i - 1] >>
                     ELSE <<>>
         IN  here \o collectFrom(rs, i + 1)

collectSearchConditions(rs) == collectFrom(rs, 1)

RECURSIVE Flatten(_)
Flatten(conditions) ==
    IF conditions = <<>> THEN <<>>
    ELSE Head(conditions).keywords \o Flatten(Tail(conditions))

\* A selection that removes duplicates inside each condition only.
RECURSIVE uniquePerCondition(_)
uniquePerCondition(conditions) ==
    IF conditions = <<>> THEN <<>>
    ELSE SelectSeq(Unique(Head(conditions).keywords), NonBlank)
            \o uniquePerCondition(Tail(conditions))

\* manualSearch: uniqueKeywords = [...new Set(allKeywords)].filter(kw => kw && kw.trim()).
uniqueKeywords(conditions) == SelectSeq(Unique(Flatten(conditions)), NonBlank)

\* manualSearch up to the request: what it throws, or "" when it sends.
EmptyCondition(condition) == Len(condition.keywords) = 0

\* A manualSearch that sends whatever it collected.
manualSearchErrorUnchecked(rs) == ""

manualSearchError(rs) ==
    LET searchConditions == collectSearchConditions(rs)
    IN  IF Len(searchConditions) = 0 THEN "search-failed: no conditions"
        ELSE IF Len(SelectSeq(searchConditions, EmptyCondition)) > 0
             THEN "search-failed: empty condition"
        ELSE IF Len(uniqueKeywords(searchConditions)) = 0
             THEN "search-failed: no valid keywords"
        ELSE ""

\* ------------------------------------------------------------------ Init
\* The state with the GPSS key verified or not and the condition rows rs,
\* everything else as the constructors and initializeModules leave it.
Start(verified, rs) ==
    /\ app = [isSearching |-> FALSE, apiKeyVerified |-> verified,
              currentSessionId |-> 1,
              searchResults |-> [m \in Modes |-> NullList]]
    /\ searchManager = [currentSessionId |-> 1, generatedKeywords |-> <<>>,
                        searchResults |-> [m \in {"tech", "condition"} |-> NullList]]
    /\ chatManager = [chatEnabled |-> FALSE, memoryEnabled |-> TRUE,
                      chatHistory |-> <<>>, confirming |-> 0,
                      currentSessionId |-> 1,
                      memoryStatus |-> "initial"]
    /\ excelManager = [selectedFile |-> FALSE, currentAnalysisResults |-> NullList,
                       isProcessing |-> FALSE]
    /\ uiManager = [progressIntervals |-> [b \in Bars |-> NoTimer],
                    width |-> [b \in Bars |-> 0],
                    patentList |-> [m \in Modes |-> NullList]]
    /\ rows = rs
    /\ inflight = {}
    /\ pendingAuto = 0
    /\ downloads = 0
    /\ issued = 1
    /\ retry = NoRetry
    /\ apiService = NoCall

\* The state after construction.
Init == Start(FALSE, <<InitialConditionRow>>)

\* ------------------------------------------------- condition-row handlers
\* handleDrop -> addKeywordToDropZone on row i.
DropKeyword(i, k) ==
    /\ i \in 1 .. Len(rows)
    /\ Len(rows[i].keywords) < MaxKeywords
    /\ rows' = [rows EXCEPT ![i] = addKeywordToDropZone(@, k)]
    /\ UNCHANGED <<app, searchManager, chatManager, excelManager, uiManager,
                   inflight, pendingAuto, downloads, issued, retry, apiService>>

\* The click handler of a span's remove button.
RemoveKeyword(i, j) ==
    /\ i \in 1 .. Len(rows)
    /\ j \in 1 .. Len(rows[i].keywords)
    /\ rows' = [rows EXCEPT ![i].keywords =
                    SubSeq(@, 1, j - 1) \o SubSeq(@, j + 1, Len(@))]
    /\ UNCHANGED <<app, searchManager, chatManager, excelManager, uiManager,
                   inflight, pendingAuto, downloads, issued, retry, apiService>>

addConditionRow ==
    /\ Len(rows) < MaxRows
    /\ rows' = Append(rows, createConditionRow)
    /\ UNCHANGED <<app, searchManager, chatManager, excelManager, uiManager,
                   inflight, pendingAuto, downloads, issued, retry, apiService>>

\* The user changes a row's field or logic <select>.
SelectField(i, f) ==
    /\ i \in 1 .. Len(rows)
    /\ rows' = [rows EXCEPT ![i].field = f]
    /\ UNCHANGED <<app, searchManager, chatManager, excelManager, uiManager,
                   inflight, pendingAuto, downloads, issued, retry, apiService>>

SelectLogic(i, l) ==
    /\ i \in 1 .. Len(rows)
    /\ rows' = [rows EXCEPT ![i].logic = l]
    /\ UNCHANGED <<app, searchManager, chatManager, excelManager, uiManager,
                   inflight, pendingAuto, downloads, issued, retry, apiService>>

\* The clear-all button.
ClearAllConditions ==
    /\ rows' = clearAllConditions(rows)
    /\ UNCHANGED <<app, searchManager, chatManager, excelManager, uiManager,
                   inflight, pendingAuto, downloads, issued, retry, apiService>>

\* ---------------------------------------------------- GPSS key verification
\* The message of validateApiKey, "ok" when it returns true.
validateApiKey(key) ==
    IF key = "" THEN "api-key-missing"
    ELSE IF ~app.apiKeyVerified THEN "api-key-unverified"
    ELSE "ok"

testGpssConnectionMessage(key) ==
    IF key = "" THEN "gpss-key-missing"
    ELSE IF KeyLength(key) < MinApiKeyLength THEN "gpss-key-format"
    ELSE ""

testGpssConnection(key) ==
    IF testGpssConnectionMessage(key) # "" THEN UNCHANGED vars
    ELSE /\ CanDispatch
         /\ inflight' = inflight \cup {Request(inflight, "gpss", Null, 0, <<>>)}
         /\ UNCHANGED <<app, searchManager, chatManager, excelManager, uiManager,
                        rows, pendingAuto, downloads, issued, retry, apiService>>

GpssResponse(r, outcome) ==
    /\ r \in Outstanding("gpss")
    /\ inflight' = inflight \ {r}
    /\ app' = [app EXCEPT !.apiKeyVerified = (outcome = "success")]
    /\ UNCHANGED <<searchManager, chatManager, excelManager, uiManager, rows,
                   pendingAuto, downloads, issued, retry, apiService>>

\* ----------------------------------------------------------- ChatManager
enableChat(chat) == [chat EXCEPT !.chatEnabled = TRUE]

\* updateMemoryStatus up to its await, on the network net.
updateMemoryStatus(net, chat) ==
    IF chat.currentSessionId # Null
    THEN net \cup {Request(net, "memory-status", chat.currentSessionId, 0, <<>>)}
    ELSE net

\* A check that finds results whatever SearchManager holds.
hasSearchResultsAlways(sm) == TRUE

\* SearchManager.hasSearchResults: searchResults.tech || searchResults.condition
\* (a list, empty or not, is truthy; null is not).
hasSearchResults(sm) ==
    sm.searchResults["tech"] # NullList \/ sm.searchResults["condition"] # NullList

\* "if (!chatManager.isEnabled()) chatManager.enableChat()"; enableChat ends
\* with updateMemoryStatus().
chatAfterSuccess(chat) == IF chat.chatEnabled THEN chat ELSE enableChat(chat)

\* A success continuation that calls enableChat whether or not the chat is
\* enabled: its request.
netAfterSuccessAlways(net, chat) == updateMemoryStatus(net, chat)

\* The request of that enableChat, if it is called.
netAfterSuccess(net, chat) ==
    IF chat.chatEnabled THEN net ELSE updateMemoryStatus(net, chat)

MemoryStatusResponse(r, outcome) ==
    /\ r \in Outstanding("memory-status")
    /\ inflight' = inflight \ {r}
    /\ chatManager' = IF outcome = "success"
                      THEN [chatManager EXCEPT !.memoryStatus = "fetched"]
                      ELSE chatManager
    /\ UNCHANGED <<app, searchManager, excelManager, uiManager, rows, pendingAuto,
                   downloads, issued, retry, apiService>>

\* ------------------------------------------------------------------- chat
\* The entry addChatMessage pushes on chatHistory.
Turn(type, content, memoryMode) ==
    [type |-> type, content |-> content, memoryMode |-> memoryMode]

\* An addChatMessage that puts the new entry first.
addChatMessageFirst(chat, type, content, memoryMode) ==
    [chat EXCEPT !.chatHistory = <<Turn(type, content, memoryMode)>> \o @]

\* An addChatMessage that starts the transcript over with the new entry.
addChatMessageAlone(chat, type, content, memoryMode) ==
    [chat EXCEPT !.chatHistory = <<Turn(type, content, memoryMode)>>]

\* ChatManager.addChatMessage.
addChatMessage(chat, type, content, memoryMode) ==
    [chat EXCEPT !.chatHistory = Append(@, Turn(type, content, memoryMode))]

\* The newest entry of a transcript that has one.
LastTurn(chat) == chat.chatHistory[Len(chat.chatHistory)]

\* The texts of the chat input: blank after trim, or a question.
ChatInputs == {"", "q1"}

\* The endpoints of a question: askWithMemory or askSimpleQuestion.
ChatKinds == {"ask-with-memory", "ask-simple"}

\* Entries the handlers that are waiting for a response or for the confirm
\* dialog may still push.
PendingTurns ==
    Cardinality({r \in inflight : r.kind \in ChatKinds \cup {"clear-memory"}})
        + chatManager.confirming

\* Room on the transcript for n more entries besides the pending ones.
CanAppend(n) == Len(chatManager.chatHistory) + PendingTurns + n <= MaxTurns

\* A callQwenAPI without the session check.
callQwenAPIErrorUnchecked(chat) == ""

\* callQwenAPI before its request: the error it throws.
callQwenAPIError(chat) ==
    IF chat.currentSessionId = Null THEN "session-not-set" ELSE ""

\* A callQwenAPI that asks both endpoints.
callQwenAPIBoth(net, chat) ==
    LET first == Request(net, "ask-with-memory", chat.currentSessionId, 0, <<>>)
    IN  net \cup {first,
                  Request(net \cup {first}, "ask-simple", chat.currentSessionId,
                          0, <<>>)}

\* callQwenAPI's request on the network net: askWithMemory in memory mode,
\* askSimpleQuestion otherwise.
callQwenAPI(net, chat) ==
    net \cup {Request(net,
                      IF chat.memoryEnabled THEN "ask-with-memory" ELSE "ask-simple",
                      chat.currentSessionId, 0, <<>>)}

\* The entry the catch block of sendChatMessage pushes for an error: an
\* assistant entry whose text ends with the error's message.
ErrorTurn(error) == Turn("assistant", error, FALSE)

\* sendChatMessage up to the await of the request (or, when callQwenAPI
\* throws before it, to its end).
sendChatMessage(message) ==
    IF message = "" \/ ~chatManager.chatEnabled THEN UNCHANGED vars
    ELSE LET asked == addChatMessage(chatManager, "user", message,
                                     chatManager.memoryEnabled)
             error == callQwenAPIError(asked)
         IN  /\ CanAppend(2)
             /\ IF error # ""
                THEN /\ chatManager' = [asked EXCEPT
                              !.chatHistory = Append(@, ErrorTurn(error))]
                     /\ UNCHANGED inflight
                ELSE /\ CanDispatch
                     /\ chatManager' = asked
                     /\ inflight' = callQwenAPI(inflight, asked)
             /\ UNCHANGED <<app, searchManager, excelManager, uiManager, rows,
                            pendingAuto, downloads, issued, retry, apiService>>

\* sendChatMessage after the await: the answer is pushed and the memory
\* status refreshed, or the error is pushed.
ChatResponse(r, outcome) ==
    /\ r \in inflight
    /\ r.kind \in ChatKinds
    /\ LET net == inflight \ {r}
       IN  IF outcome = "success"
           THEN LET answered == addChatMessage(chatManager, "assistant", "a1",
                                               chatManager.memoryEnabled)
                IN  /\ chatManager' = answered
                    /\ inflight' = updateMemoryStatus(net, answered)
           ELSE /\ chatManager' = [chatManager EXCEPT
                         !.chatHistory = Append(@, ErrorTurn("api"))]
                /\ inflight' = net
    /\ UNCHANGED <<app, searchManager, excelManager, uiManager, rows,
                   pendingAuto, downloads, issued, retry, apiService>>

\* ChatManager.toggleMemoryMode (the memory toggle button).
toggleMemoryMode ==
    /\ CanAppend(1)
    /\ chatManager' =
          LET toggled == [chatManager EXCEPT !.memoryEnabled = ~@]
          IN  addChatMessage(toggled, "system",
                  IF toggled.memoryEnabled THEN "memory-on" ELSE "memory-off",
                  FALSE)
    /\ UNCHANGED <<app, searchManager, excelManager, uiManager, rows, inflight,
                   pendingAuto, downloads, issued, retry, apiService>>

\* The change handler of the use-memory checkbox.
UseMemoryChange(checked) ==
    /\ chatManager' = [chatManager EXCEPT !.memoryEnabled = checked]
    /\ UNCHANGED <<app, searchManager, excelManager, uiManager, rows, inflight,
                   pendingAuto, downloads, issued, retry, apiService>>

\* What clearChatMemory shows before its dialog.
clearChatMemoryMessage ==
    IF chatManager.currentSessionId = Null THEN "no-session" ELSE ""

\* clearChatMemory up to the await of the confirm dialog.
clearChatMemory ==
    IF clearChatMemoryMessage # "" THEN UNCHANGED vars
    ELSE /\ chatManager.confirming < MaxDialogs
         /\ CanAppend(1)
         /\ chatManager' = [chatManager EXCEPT !.confirming = @ + 1]
         /\ UNCHANGED <<app, searchManager, excelManager, uiManager, rows,
                        inflight, pendingAuto, downloads, issued, retry, apiService>>

\* The dialog's buttons: "confirm" resolves true and the request is sent;
\* a click on the backdrop or the close button ("close") resolves false;
\* the cancel button ("cancel") removes the dialog without resolving.
DialogChoices == {"confirm", "close", "cancel"}

ConfirmDialog(choice) ==
    /\ chatManager.confirming > 0
    /\ chatManager' = [chatManager EXCEPT !.confirming = @ - 1]
    /\ IF choice = "confirm"
       THEN /\ CanDispatch
            /\ inflight' = inflight \cup
                 {Request(inflight, "clear-memory",
                          chatManager.currentSessionId, 0, <<>>)}
       ELSE UNCHANGED inflight
    /\ UNCHANGED <<app, searchManager, excelManager, uiManager, rows,
                   pendingAuto, downloads, issued, retry, apiService>>

\* clearChatMemory after the await of the request.
ClearMemoryResponse(r, outcome) ==
    /\ r \in Outstanding("clear-memory")
    /\ LET net == inflight \ {r}
       IN  IF outcome = "success"
           THEN LET cleared == addChatMessage(chatManager, "system",
                                              "memory-cleared", FALSE)
                IN  /\ chatManager' = cleared
                    /\ inflight' = updateMemoryStatus(net, cleared)
           ELSE /\ chatManager' = chatManager
                /\ inflight' = net
    /\ UNCHANGED <<app, searchManager, excelManager, uiManager, rows,
                   pendingAuto, downloads, issued, retry, apiService>>

\* What showChatHistory shows before its request.
showChatHistoryMessage ==
    IF chatManager.currentSessionId = Null THEN "no-session" ELSE ""

\* showChatHistory up to the await of the request.
showChatHistory ==
    IF showChatHistoryMessage # "" THEN UNCHANGED vars
    ELSE /\ CanDispatch
         /\ inflight' = inflight \cup
              {Request(inflight, "history", chatManager.currentSessionId, 0, <<>>)}
         /\ UNCHANGED <<app, searchManager, chatManager, excelManager, uiManager,
                        rows, pendingAuto, downloads, issued, retry, apiService>>

\* showChatHistory after the await: a modal, a warning or an error is shown.
HistoryResponse(r) ==
    /\ r \in Outstanding("history")
    /\ inflight' = inflight \ {r}
    /\ UNCHANGED <<app, searchManager, chatManager, excelManager, uiManager,
                   rows, pendingAuto, downloads, issued, retry, apiService>>

\* ------------------------------------------------------- generateKeywords
\* A setSessionId that keeps an id the manager already holds.
setSessionIdIfUnset(manager, sessionId) ==
    IF manager.currentSessionId = Null
    THEN [manager EXCEPT !.currentSessionId = sessionId]
    ELSE manager

\* SearchManager.setSessionId / ChatManager.setSessionId.
setSessionId(manager, sessionId) == [manager EXCEPT !.currentSessionId = sessionId]

\* A length check that also rejects a description of exactly 50 characters.
descriptionErrorInclusive(d) ==
    IF d = 0 THEN "description-missing"
    ELSE IF d <= MinDescriptionLength THEN "description-too-short"
    ELSE ""

\* The two checks of PatentSearchApp.generateKeywords on the description.
descriptionError(d) ==
    IF d = 0 THEN "description-missing"
    ELSE IF d < MinDescriptionLength THEN "description-too-short"
    ELSE ""

\* The check SearchManager.generateKeywords makes before it sends.
descriptionTooShort(d) == d = 0 \/ d < MinDescriptionLength

\* The messages of the returns that precede a handler's try block.
BeforeTry ==
    {"api-key-missing", "api-key-unverified", "busy-processing", "busy-searching"}

generateKeywordsMessage(key, d) ==
    IF validateApiKey(key) # "ok" THEN validateApiKey(key)
    ELSE IF app.isSearching THEN "busy-processing"
    ELSE IF descriptionError(d) # "" THEN descriptionError(d)
    ELSE IF descriptionTooShort(d) THEN "keywords-failed: description-too-short"
    ELSE ""

\* A finally block that leaves the flag as the try block set it.
finallyStillSearching(a) == a

\* The flag assignment of the finally blocks of generateKeywords,
\* executeSearch and startConditionSearch, as run after a failed call.
finallyIdle(a) == [a EXCEPT !.isSearching = FALSE]

\* The finally block of generateKeywords / executeSearch.
finishTech(ui) == resetProgress(ui, "progress-fill")

generateKeywords(key, d) ==
    IF generateKeywordsMessage(key, d) \in BeforeTry THEN UNCHANGED vars
    ELSE IF generateKeywordsMessage(key, d) # ""
    THEN /\ app' = [app EXCEPT !.isSearching = FALSE]
         /\ uiManager' = finishTech(uiManager)
         /\ UNCHANGED <<searchManager, chatManager, excelManager, rows, inflight,
                        pendingAuto, downloads, issued, retry, apiService>>
    ELSE LET fresh == searchManager.currentSessionId = Null
             sid   == IF fresh THEN generateSessionId
                      ELSE searchManager.currentSessionId
         IN  /\ CanDispatch
             /\ fresh => CanGenerate
             /\ issued' = IF fresh THEN sid ELSE issued
             /\ app' = [app EXCEPT !.isSearching = TRUE]
             /\ uiManager' = startProgressAnimation(
                                 updateProgress(uiManager, "progress-fill", 10),
                                 "progress-fill", 10000)
             /\ searchManager' = [searchManager EXCEPT !.currentSessionId = sid]
             /\ inflight' = inflight \cup {Request(inflight, "keywords", sid, d, <<>>)}
             /\ UNCHANGED <<chatManager, excelManager, rows, pendingAuto, downloads, retry, apiService>>

\* The response to the keyword request: SearchManager.generateKeywords after
\* its await, then PatentSearchApp.generateKeywords after its await.
\* session_id is the id the backend answers with, groups its
\* keywords_with_synonyms.
KeywordsResponse(r, outcome, session_id, groups) ==
    /\ r \in Outstanding("keywords")
    /\ inflight' = inflight \ {r}
    /\ IF outcome = "success"
       THEN /\ searchManager' = setSessionId(
                                    [searchManager EXCEPT
                                        !.currentSessionId = session_id,
                                        !.generatedKeywords = groups],
                                    session_id)
            /\ app' = [app EXCEPT !.currentSessionId = session_id,
                                  !.isSearching = FALSE]
            /\ chatManager' = setSessionId(chatManager, session_id)
            /\ uiManager' = finishTech(completeProgress(uiManager, "progress-fill"))
       ELSE /\ app' = finallyIdle(app)
            /\ uiManager' = finishTech(uiManager)
            /\ UNCHANGED <<searchManager, chatManager>>
    /\ UNCHANGED <<excelManager, rows, pendingAuto, downloads, issued, retry, apiService>>

\* ---------------------------------------------------------- executeSearch
\* toggleElement(<mode>-search-results, false).
hideResults(ui, m) == [ui EXCEPT !.patentList[m] = NullList]

\* displayTechSearchResults / displayConditionSearchResults: the list the
\* container is given (an empty list is the "no patents found" notice).
displayResults(ui, m, results) ==
    [ui EXCEPT !.patentList[m] = IF results = NullList THEN <<>> ELSE results]

\* "response.search_results || response.results || []".
orEmpty(results) == IF results = NullList THEN <<>> ELSE results

\* A completeTechSearch that appends to the list it finds.
completeTechSearchMerging(a, results) ==
    [a EXCEPT !.searchResults["tech"] =
        IF @ = NullList THEN results ELSE @ \o results]

\* A completeTechSearch that drops a response no search is waiting for.
completeTechSearchIfSearching(a, results) ==
    IF a.isSearching THEN [a EXCEPT !.searchResults["tech"] = orEmpty(results)]
    ELSE a

completeTechSearch(a, results) ==
    [a EXCEPT !.searchResults["tech"] = orEmpty(results)]

\* A busy check that lets a start through while a search is running.
executeSearchMessageUnguarded == manualSearchError(rows)

executeSearchMessage ==
    IF app.isSearching THEN "busy-searching" ELSE manualSearchError(rows)

\* executeSearch up to its await, the description being d characters long;
\* the caller says what becomes of pendingAuto.
executeSearch(d) ==
    IF executeSearchMessage = "busy-searching"
    THEN UNCHANGED <<app, searchManager, chatManager, excelManager, uiManager,
                     rows, inflight, downloads, issued, retry, apiService>>
    ELSE IF executeSearchMessage # ""
    THEN /\ app' = [app EXCEPT !.isSearching = FALSE]
         /\ uiManager' = finishTech(hideResults(uiManager, "tech"))
         /\ UNCHANGED <<searchManager, chatManager, excelManager, rows, inflight,
                        downloads, issued, retry, apiService>>
    ELSE /\ CanDispatch
         /\ app' = [app EXCEPT !.isSearching = TRUE]
         /\ uiManager' = startProgressAnimation(
                             updateProgress(hideResults(uiManager, "tech"),
                                            "progress-fill", 30),
                             "progress-fill", 45000)
         /\ inflight' = inflight \cup
                {Request(inflight, "tech", searchManager.currentSessionId, d,
                         uniqueKeywords(collectSearchConditions(rows)))}
         /\ UNCHANGED <<searchManager, chatManager, excelManager, rows, downloads,
                        issued, retry, apiService>>

manualSearchMessage(key) ==
    IF validateApiKey(key) # "ok" THEN validateApiKey(key) ELSE executeSearchMessage

manualSearch(key, d) ==
    IF validateApiKey(key) # "ok" THEN UNCHANGED vars
    ELSE executeSearch(d) /\ UNCHANGED pendingAuto

autoGenerateAndSearchMessage(key) ==
    IF validateApiKey(key) # "ok" THEN validateApiKey(key)
    ELSE IF Len(searchManager.generatedKeywords) = 0 THEN "no-keyword-groups"
    ELSE "conditions-generated"

\* autoGenerateAndSearch up to its await on Utils.delay(500).
autoGenerateAndSearch(key) ==
    IF validateApiKey(key) # "ok" THEN UNCHANGED vars
    ELSE /\ pendingAuto < MaxPendingAuto
         /\ rows' = autoGenerateConditions(rows, searchManager.generatedKeywords)
         /\ pendingAuto' = pendingAuto + 1
         /\ UNCHANGED <<app, searchManager, chatManager, excelManager, uiManager,
                        inflight, downloads, issued, retry, apiService>>

\* The delay of autoGenerateAndSearch ends: it calls executeSearch.
AutoDelayDone(d) ==
    /\ pendingAuto > 0
    /\ pendingAuto' = pendingAuto - 1
    /\ executeSearch(d)

\* The response to the confirmed-search request: SearchManager.manualSearch
\* after its await, then executeSearch after its await.
TechResponse(r, outcome, results) ==
    /\ r \in Outstanding("tech")
    /\ IF outcome = "success"
       THEN /\ searchManager' = [searchManager EXCEPT
                                    !.searchResults["tech"] = orEmpty(results)]
            /\ app' = [completeTechSearch(app, results) EXCEPT !.isSearching = FALSE]
            /\ chatManager' = chatAfterSuccess(chatManager)
            /\ inflight' = netAfterSuccess(inflight \ {r}, chatManager)
            /\ uiManager' = finishTech(displayResults(
                                completeProgress(uiManager, "progress-fill"),
                                "tech", app'.searchResults["tech"]))
       ELSE /\ app' = finallyIdle(app)
            /\ inflight' = inflight \ {r}
            /\ uiManager' = finishTech(uiManager)
            /\ UNCHANGED <<searchManager, chatManager>>
    /\ UNCHANGED <<excelManager, rows, pendingAuto, downloads, issued, retry, apiService>>

\* ---------------------------------------------------- startConditionSearch
\* The finally block of startConditionSearch.
finishCondition(ui) == resetProgress(ui, "progress-fill-condition")

\* A completeConditionSearch that only displays the records.
completeConditionSearchDisplayOnly(a, results) == a

completeConditionSearch(a, results) ==
    [a EXCEPT !.searchResults["condition"] = orEmpty(results)]

\* hasValid is hasValidConditions of the form as the user filled it.
startConditionSearchMessage(key, hasValid) ==
    IF validateApiKey(key) # "ok" THEN validateApiKey(key)
    ELSE IF app.isSearching THEN "busy-searching"
    ELSE IF ~hasValid THEN "condition-failed: no condition"
    ELSE ""

startConditionSearch(key, hasValid) ==
    IF startConditionSearchMessage(key, hasValid) \in BeforeTry THEN UNCHANGED vars
    ELSE LET appFresh == app.currentSessionId = Null
             appSid   == IF appFresh THEN generateSessionId
                         ELSE app.currentSessionId
             issued1  == IF appFresh THEN appSid ELSE issued
             sm1      == IF appFresh THEN appSid
                         ELSE searchManager.currentSessionId
             smFresh  == sm1 = Null
             sid      == IF smFresh THEN issued1 + 1 ELSE sm1
         IN  /\ appFresh => CanGenerate
             /\ chatManager' = IF appFresh
                               THEN [chatManager EXCEPT !.currentSessionId = appSid]
                               ELSE chatManager
             /\ IF startConditionSearchMessage(key, hasValid) # ""
                THEN /\ app' = [app EXCEPT !.currentSessionId = appSid,
                                           !.isSearching = FALSE]
                     /\ searchManager' = [searchManager EXCEPT
                                             !.currentSessionId = sm1]
                     /\ issued' = issued1
                     /\ uiManager' = finishCondition(
                                         hideResults(uiManager, "condition"))
                     /\ UNCHANGED inflight
                ELSE /\ CanDispatch
                     /\ smFresh => issued1 < MaxSessionIds
                     /\ issued' = IF smFresh THEN sid ELSE issued1
                     /\ app' = [app EXCEPT !.currentSessionId = appSid,
                                           !.isSearching = TRUE]
                     /\ searchManager' = [searchManager EXCEPT
                                             !.currentSessionId = sid]
                     /\ uiManager' = startProgressAnimation(
                            updateProgress(hideResults(uiManager, "condition"),
                                           "progress-fill-condition", 30),
                            "progress-fill-condition", 30000)
                     /\ inflight' = inflight \cup
                            {Request(inflight, "condition", sid, 0, <<>>)}
             /\ UNCHANGED <<excelManager, rows, pendingAuto, downloads, retry, apiService>>

ConditionResponse(r, outcome, results) ==
    /\ r \in Outstanding("condition")
    /\ IF outcome = "success"
       THEN /\ searchManager' = [searchManager EXCEPT
                                    !.searchResults["condition"] = orEmpty(results)]
            /\ app' = [completeConditionSearch(app, results) EXCEPT
                          !.isSearching = FALSE]
            /\ chatManager' = chatAfterSuccess(chatManager)
            /\ inflight' = netAfterSuccess(inflight \ {r}, chatManager)
            /\ uiManager' = finishCondition(displayResults(
                    completeProgress(uiManager, "progress-fill-condition"),
                    "condition", app'.searchResults["condition"]))
       ELSE /\ app' = finallyIdle(app)
            /\ inflight' = inflight \ {r}
            /\ uiManager' = finishCondition(uiManager)
            /\ UNCHANGED <<searchManager, chatManager>>
    /\ UNCHANGED <<excelManager, rows, pendingAuto, downloads, issued, retry, apiService>>

\* ----------------------------------------------------------- ExcelManager
setSelectedFile ==
    /\ excelManager' = [excelManager EXCEPT !.selectedFile = TRUE]
    /\ UNCHANGED <<app, searchManager, chatManager, uiManager, rows, inflight,
                   pendingAuto, downloads, issued, retry, apiService>>

clearFile(excel) ==
    [excel EXCEPT !.selectedFile = FALSE, !.currentAnalysisResults = NullList]

\* The clear-file button.
ClearFile ==
    /\ excelManager' = clearFile(excelManager)
    /\ uiManager' = hideResults(uiManager, "excel")
    /\ UNCHANGED <<app, searchManager, chatManager, rows, inflight, pendingAuto,
                   downloads, issued, retry, apiService>>

\* The finally block of analyzeExcel.
finishExcel(ui) == resetProgress(ui, "progress-fill-excel")

analyzeExcelMessage ==
    IF ~excelManager.selectedFile THEN "excel-no-file"
    ELSE IF excelManager.isProcessing THEN "busy-excel"
    ELSE ""

analyzeExcel ==
    IF analyzeExcelMessage # "" THEN UNCHANGED vars
    ELSE /\ CanDispatch
         /\ excelManager' = [excelManager EXCEPT !.isProcessing = TRUE]
         /\ uiManager' = startProgressAnimation(
                             updateProgress(uiManager, "progress-fill-excel", 10),
                             "progress-fill-excel", 60000)
         /\ inflight' = inflight \cup {Request(inflight, "excel", Null, 0, <<>>)}
         /\ UNCHANGED <<app, searchManager, chatManager, rows, pendingAuto,
                        downloads, issued, retry, apiService>>

\* completeExcelAnalysis keeps the response; the model keeps its results.
completeExcelAnalysis(excel, results) ==
    [excel EXCEPT !.currentAnalysisResults = results]

ExcelResponse(r, outcome, results) ==
    /\ r \in Outstanding("excel")
    /\ IF outcome = "success"
       THEN /\ excelManager' = [completeExcelAnalysis(excelManager, results) EXCEPT
                                   !.isProcessing = FALSE]
            /\ app' = [app EXCEPT !.searchResults["excel"] = results]
            /\ chatManager' = chatAfterSuccess(chatManager)
            /\ inflight' = netAfterSuccess(inflight \ {r}, chatManager)
            /\ uiManager' = finishExcel(displayResults(
                                completeProgress(uiManager, "progress-fill-excel"),
                                "excel", results))
       ELSE /\ excelManager' = [excelManager EXCEPT !.isProcessing = FALSE]
            /\ inflight' = inflight \ {r}
            /\ uiManager' = finishExcel(uiManager)
            /\ UNCHANGED <<app, chatManager>>
    /\ UNCHANGED <<searchManager, rows, pendingAuto, downloads, issued, retry, apiService>>

\* ----------------------------------------------------------------- export
\* A check that takes an empty list for data.
NoExportDataNullOnly(results) == results = NullList

\* SearchManager.exportToExcel: !results || !results.length.
NoExportData(results) == results = NullList \/ Len(results) = 0

exportToExcelMessage(type) ==
    IF NoExportData(searchManager.searchResults[type])
    THEN "export-failed: no data"
    ELSE "export-done"

\* PatentSearchApp.exportToExcel(type): XLSX.writeFile is the collaborator.
exportToExcel(type) ==
    IF exportToExcelMessage(type) # "export-done" THEN UNCHANGED vars
    ELSE /\ downloads < MaxDownloads
         /\ downloads' = downloads + 1
         /\ UNCHANGED <<app, searchManager, chatManager, excelManager, uiManager,
                        rows, inflight, pendingAuto, issued, retry, apiService>>

exportAnalysisResultsMessage ==
    IF excelManager.currentAnalysisResults = NullList
    THEN "export-failed: no analysis results"
    ELSE ""

\* ExcelManager.exportAnalysisResults up to its await.
exportAnalysisResults ==
    IF exportAnalysisResultsMessage # "" THEN UNCHANGED vars
    ELSE /\ CanDispatch
         /\ downloads + Cardinality(Outstanding("export")) < MaxDownloads
         /\ inflight' = inflight \cup {Request(inflight, "export", Null, 0, <<>>)}
         /\ UNCHANGED <<app, searchManager, chatManager, excelManager, uiManager,
                        rows, pendingAuto, downloads, issued, retry, apiService>>

\* The export response: on success the blob is saved through a link.
ExportResponse(r, outcome) ==
    /\ r \in Outstanding("export")
    /\ inflight' = inflight \ {r}
    /\ downloads' = IF outcome = "success" THEN downloads + 1 ELSE downloads
    /\ UNCHANGED <<app, searchManager, chatManager, excelManager, uiManager, rows,
                   pendingAuto, issued, retry, apiService>>

\* ------------------------------------------------------------------ reset
\* PatentSearchApp.reset with SearchManager.reset, ChatManager.reset,
\* ExcelManager.reset, hideAllResults and resetAllProgress.
reset ==
    /\ CanGenerate
    /\ issued' = generateSessionId
    /\ app' = [app EXCEPT !.searchResults = [m \in Modes |-> NullList],
                          !.isSearching = FALSE,
                          !.currentSessionId = generateSessionId]
    /\ searchManager' = [currentSessionId |-> Null, generatedKeywords |-> <<>>,
                         searchResults |-> [m \in {"tech", "condition"} |-> NullList]]
    /\ chatManager' = [chatManager EXCEPT !.chatEnabled = FALSE,
                                          !.chatHistory = <<>>,
                                          !.memoryStatus = "initial"]
    /\ excelManager' = [clearFile(excelManager) EXCEPT !.isProcessing = FALSE]
    /\ uiManager' = [uiManager EXCEPT
                        !.progressIntervals = [b \in Bars |-> NoTimer],
                        !.width = [b \in Bars |-> 0],
                        !.patentList = [m \in Modes |-> NullList]]
    /\ UNCHANGED <<rows, inflight, pendingAuto, downloads, retry, apiService>>

\* ------------------------------------------------------ APIService.request
\* A field of a JSON body: not there, an empty string, or a text.
Absent == "absent"

FieldValues(text) == {Absent, "", text}

\* JavaScript truthiness of a field of the body.
Truthy(v) == v \notin {Absent, ""}

\* A body response.json() rejects, or one that is JSON null (reading a
\* field of it throws inside the same try block).
NotJson == [json |-> FALSE, detail |-> Absent, message |-> Absent]

Bodies ==
    {NotJson} \cup {[json |-> TRUE, detail |-> d, message |-> m] :
                       d \in FieldValues("detail-1"), m \in FieldValues("message-1")}

\* response.status as the template literal prints it, and response.statusText
\* (empty over HTTP/2).
ErrorStatuses == {"400", "500"}

StatusTexts == {"", "status-text"}

HttpResponses ==
    {[ok |-> TRUE, status |-> "200", statusText |-> "OK", body |-> b] :
        b \in {NotJson, [json |-> TRUE, detail |-> Absent, message |-> Absent]}}
    \cup {[ok |-> FALSE, status |-> st, statusText |-> tx, body |-> b] :
             st \in ErrorStatuses, tx \in StatusTexts, b \in Bodies}

\* An errorDetail that looks at the message field first.
errorDetailMessageFirst(response) ==
    IF ~response.body.json
    THEN <<"HTTP ", response.status, ": ", response.statusText>>
    ELSE IF Truthy(response.body.message) THEN <<response.body.message>>
    ELSE IF Truthy(response.body.detail) THEN <<response.body.detail>>
    ELSE <<"HTTP ", response.status>>

\* errorDetail of request(), as the parts of the string: errorData.detail ||
\* errorData.message || `HTTP ${response.status}`, and in the catch of the
\* inner try `HTTP ${response.status}: ${response.statusText}`.
errorDetail(response) ==
    IF ~response.body.json
    THEN <<"HTTP ", response.status, ": ", response.statusText>>
    ELSE IF Truthy(response.body.detail) THEN <<response.body.detail>>
    ELSE IF Truthy(response.body.message) THEN <<response.body.message>>
    ELSE <<"HTTP ", response.status>>

everythingButApi == <<app, searchManager, chatManager, excelManager, uiManager,
                      rows, inflight, pendingAuto, downloads, issued, retry>>

\* request(endpoint, options) up to its await on fetch, called directly or
\* by testConnection.
request(caller) ==
    /\ apiService.state # "fetching"
    /\ apiService' = [apiService EXCEPT !.state = "fetching", !.caller = caller,
                                        !.response = <<>>, !.error = <<>>]
    /\ UNCHANGED everythingButApi

\* testConnection after its await: isConnected follows the outcome.
afterRequest(api, returned) ==
    IF api.caller = "testConnection" THEN [api EXCEPT !.isConnected = returned]
    ELSE api

\* fetch resolves with a response: request() returns the parsed body or
\* throws one error and rethrows it from its outer catch.
FetchResolves(response) ==
    /\ apiService.state = "fetching"
    /\ apiService' =
          IF response.ok /\ response.body.json
          THEN afterRequest([apiService EXCEPT !.state = "returned",
                                               !.response = <<response>>], TRUE)
          ELSE afterRequest(
                   [apiService EXCEPT
                       !.state = "thrown",
                       !.response = <<response>>,
                       !.error = IF response.ok THEN <<"SyntaxError">>
                                 ELSE errorDetail(response)], FALSE)
    /\ UNCHANGED everythingButApi

\* fetch rejects (no response at all): the outer catch rethrows its error.
FetchRejects ==
    /\ apiService.state = "fetching"
    /\ apiService' = afterRequest([apiService EXCEPT !.state = "thrown",
                                                     !.error = <<"TypeError">>],
                                  FALSE)
    /\ UNCHANGED everythingButApi

\* The message of the error uploadAndAnalyzeExcel throws for a non-success
\* response: errorData?.detail || `HTTP ${response.status}:
\* ${response.statusText}`, errorData being null when response.json() rejects.
uploadErrorDetail(response) ==
    IF response.body.json /\ Truthy(response.body.detail)
    THEN <<response.body.detail>>
    ELSE <<"HTTP ", response.status, ": ", response.statusText>>

\* uploadAndAnalyzeExcel up to its await on fetch.
uploadAndAnalyzeExcel ==
    /\ apiService.state \notin {"fetching", "uploading"}
    /\ apiService' = [apiService EXCEPT !.state = "uploading",
                                        !.caller = "uploadAndAnalyzeExcel",
                                        !.response = <<>>, !.error = <<>>]
    /\ UNCHANGED everythingButApi

\* The fetch of uploadAndAnalyzeExcel resolves with a response.
UploadResolves(response) ==
    /\ apiService.state = "uploading"
    /\ apiService' =
          IF response.ok /\ response.body.json
          THEN [apiService EXCEPT !.state = "returned", !.response = <<response>>]
          ELSE [apiService EXCEPT
                   !.state = "thrown",
                   !.response = <<response>>,
                   !.error = IF response.ok THEN <<"SyntaxError">>
                             ELSE uploadErrorDetail(response)]
    /\ UNCHANGED everythingButApi

\* The fetch of uploadAndAnalyzeExcel rejects.
UploadRejects ==
    /\ apiService.state = "uploading"
    /\ apiService' = [apiService EXCEPT !.state = "thrown",
                                        !.error = <<"TypeError">>]
    /\ UNCHANGED everythingButApi

\* ------------------------------------------------------ requestWithRetry
\* The variables of every other object.
others == <<app, searchManager, chatManager, excelManager, uiManager, rows,
            inflight, pendingAuto, downloads, issued, apiService>>

\* What this.request(endpoint, options) does in one attempt: it returns the
\* parsed body ("success" or "nosuccess", the body's success flag) or throws.
RequestReturns == {"success", "nosuccess"}

\* requestWithRetry(endpoint, options, maxRetries, delay) up to its first
\* await: the loop starts at i = 0 and calls this.request. The record also
\* keeps the delay the call was made with (first), the number of
\* this.request calls (attempts) and the delays waited (waits).
requestWithRetry(maxRetries, delay) ==
    /\ retry.status \in {"idle", "returned", "thrown"}
    /\ retry' = [status |-> "requesting", maxRetries |-> maxRetries, i |-> 0,
                 delay |-> delay, lastError |-> 0, attempts |-> 1,
                 waits |-> <<>>, result |-> "", first |-> delay]
    /\ UNCHANGED others

\* A retryCatch that keeps the first error instead of the last one.
retryCatchFirstError(error) ==
    LET e == IF retry.lastError = 0 THEN error ELSE retry.lastError
    IN  IF retry.i = retry.maxRetries
        THEN [retry EXCEPT !.status = "thrown", !.lastError = e,
                           !.result = "error"]
        ELSE [retry EXCEPT !.status = "waiting", !.lastError = e,
                           !.waits = Append(@, retry.delay),
                           !.delay = 2 * @]

\* A retryCatch that waits after the last failed attempt as well.
retryCatchWaitingLast(error) ==
    IF retry.i = retry.maxRetries
    THEN [retry EXCEPT !.status = "thrown", !.lastError = error,
                       !.result = "error",
                       !.waits = Append(@, retry.delay)]
    ELSE [retry EXCEPT !.status = "waiting", !.lastError = error,
                       !.waits = Append(@, retry.delay),
                       !.delay = 2 * @]

\* The catch block of requestWithRetry for the error of attempt number
\* retry.attempts: on the last round the error is thrown, otherwise the
\* call waits Utils.delay(delay) and doubles delay.
retryCatch(error) ==
    IF retry.i = retry.maxRetries
    THEN [retry EXCEPT !.status = "thrown", !.lastError = error,
                       !.result = "error"]
    ELSE [retry EXCEPT !.status = "waiting", !.lastError = error,
                       !.waits = Append(@, retry.delay),
                       !.delay = 2 * @]

\* this.request settles: a returned body is returned to the caller at once,
\* an error goes to the catch block.
RetryResponse(outcome) ==
    /\ retry.status = "requesting"
    /\ retry' = IF outcome \in RequestReturns
                THEN [retry EXCEPT !.status = "returned", !.result = outcome]
                ELSE retryCatch(retry.attempts)
    /\ UNCHANGED others

\* Utils.delay(delay) elapses: the next round of the loop calls this.request.
RetryDelayDone ==
    /\ retry.status = "waiting"
    /\ retry' = [retry EXCEPT !.status = "requesting", !.i = @ + 1,
                              !.attempts = @ + 1]
    /\ UNCHANGED others

\* --------------------------------------------------------- specifications
\* Spec: the technical-description pipeline from construction on: key
\* verification, keyword generation, manual and automatic search, export of
\* the tech results and reset, on one condition row.
SearchDropTexts == {"k1"}

\* keywords_with_synonyms of the keyword responses.
SearchGroupLists == { <<>>, <<Group("k1", <<>>)>> }

Next ==
    \/ \E key \in ApiKeys : testGpssConnection(key)
    \/ \E r \in inflight, o \in Outcomes : GpssResponse(r, o)
    \/ \E key \in ApiKeys, d \in DescriptionLengths : generateKeywords(key, d)
    \/ \E r \in inflight, o \in Outcomes, g \in SearchGroupLists :
          KeywordsResponse(r, o, r.sid, g)
    \/ \E key \in ApiKeys, d \in DescriptionLengths : manualSearch(key, d)
    \/ \E key \in ApiKeys : autoGenerateAndSearch(key)
    \/ \E d \in DescriptionLengths : AutoDelayDone(d)
    \/ \E r \in inflight, o \in Outcomes, res \in RecordLists : TechResponse(r, o, res)
    \/ exportToExcel("tech")
    \/ \E r \in inflight, o \in Outcomes : MemoryStatusResponse(r, o)
    \/ reset
    \/ \E k \in SearchDropTexts : DropKeyword(1, k)
    \/ RemoveKeyword(1, 1)
    \/ ClearAllConditions

Spec == Init /\ [][Next]_vars

\* SpecModes: the busy flags and progress bars of the three modes. It starts
\* in the state Spec reaches by a successful key verification and one
\* dropped keyword; the description sent with a search is long enough, the
\* keyword responses carry no keyword group and the other success
\* responses one record.
InitModes ==
    Start(TRUE, << [keywords |-> <<"k1">>, field |-> "AB", logic |-> "AND"] >>)

NextModes ==
    \/ \E key \in ApiKeys, d \in DescriptionLengths : generateKeywords(key, d)
    \/ \E r \in inflight, o \in Outcomes : KeywordsResponse(r, o, r.sid, <<>>)
    \/ \E key \in ApiKeys : manualSearch(key, MinDescriptionLength)
    \/ \E r \in inflight, o \in Outcomes : TechResponse(r, o, <<"p1">>)
    \/ \E key \in ApiKeys, hasValid \in BOOLEAN : startConditionSearch(key, hasValid)
    \/ \E r \in inflight, o \in Outcomes : ConditionResponse(r, o, <<"p1">>)
    \/ setSelectedFile
    \/ analyzeExcel
    \/ \E r \in inflight, o \in Outcomes : ExcelResponse(r, o, <<"p1">>)
    \/ \E r \in inflight, o \in Outcomes : MemoryStatusResponse(r, o)
    \/ reset
    \/ \E k \in SearchDropTexts : DropKeyword(1, k)
    \/ RemoveKeyword(1, 1)
    \/ \E b \in Bars : ProgressTick(b)

SpecModes == InitModes /\ [][NextModes]_vars

\* ChatManager.openChat (the toggle button on a closed panel): the panel's
\* classes are not in the state; chat is enabled, with enableChat's
\* updateMemoryStatus(), when it is not and SearchManager has results.
openChat ==
    IF ~chatManager.chatEnabled /\ hasSearchResults(searchManager)
    THEN /\ CanDispatch
         /\ chatManager' = enableChat(chatManager)
         /\ inflight' = updateMemoryStatus(inflight, chatManager)
         /\ UNCHANGED <<app, searchManager, excelManager, uiManager, rows,
                        pendingAuto, downloads, issued, retry, apiService>>
    ELSE UNCHANGED vars

\* SpecOpen: the three modes with success responses that carry an empty or a
\* one-record list, reset() and the chat panel's toggle button.
NextOpen ==
    \/ \E key \in ApiKeys : manualSearch(key, MinDescriptionLength)
    \/ \E r \in inflight, o \in Outcomes, rs \in RecordLists : TechResponse(r, o, rs)
    \/ \E key \in ApiKeys, hasValid \in BOOLEAN : startConditionSearch(key, hasValid)
    \/ \E r \in inflight, o \in Outcomes, rs \in RecordLists :
          ConditionResponse(r, o, rs)
    \/ setSelectedFile
    \/ analyzeExcel
    \/ \E r \in inflight, o \in Outcomes, rs \in RecordLists : ExcelResponse(r, o, rs)
    \/ \E r \in inflight, o \in Outcomes : MemoryStatusResponse(r, o)
    \/ reset
    \/ openChat

SpecOpen == InitModes /\ [][NextOpen]_vars

\* SpecLive: the three modes with every dispatched call eventually resolved
\* or rejected: the response handlers are weakly fair, the user's actions are
\* not.
NextLive ==
    \/ \E key \in ApiKeys, d \in DescriptionLengths : generateKeywords(key, d)
    \/ \E r \in inflight, o \in Outcomes : KeywordsResponse(r, o, r.sid, <<>>)
    \/ \E key \in ApiKeys : manualSearch(key, MinDescriptionLength)
    \/ \E r \in inflight, o \in Outcomes : TechResponse(r, o, <<"p1">>)
    \/ \E key \in ApiKeys, hasValid \in BOOLEAN : startConditionSearch(key, hasValid)
    \/ \E r \in inflight, o \in Outcomes : ConditionResponse(r, o, <<"p1">>)
    \/ setSelectedFile
    \/ analyzeExcel
    \/ \E r \in inflight, o \in Outcomes : ExcelResponse(r, o, <<"p1">>)
    \/ \E r \in inflight, o \in Outcomes : MemoryStatusResponse(r, o)
    \/ reset

EveryCallSettles ==
    /\ WF_vars(\E r \in inflight, o \in Outcomes : KeywordsResponse(r, o, r.sid, <<>>))
    /\ WF_vars(\E r \in inflight, o \in Outcomes : TechResponse(r, o, <<"p1">>))
    /\ WF_vars(\E r \in inflight, o \in Outcomes : ConditionResponse(r, o, <<"p1">>))
    /\ WF_vars(\E r \in inflight, o \in Outcomes : ExcelResponse(r, o, <<"p1">>))

SpecLive == InitModes /\ [][NextLive]_vars /\ EveryCallSettles

\* SpecProgress: the three modes with the timers of their progress
\* animations followed for MaxCapTicks callbacks each.
NextProgress ==
    \/ \E key \in {"keyA"} : generateKeywords(key, MinDescriptionLength)
    \/ \E r \in inflight, o \in Outcomes : KeywordsResponse(r, o, r.sid, <<>>)
    \/ \E key \in {"keyA"} : manualSearch(key, MinDescriptionLength)
    \/ \E r \in inflight, o \in Outcomes : TechResponse(r, o, <<"p1">>)
    \/ \E key \in {"keyA"} : startConditionSearch(key, TRUE)
    \/ \E r \in inflight, o \in Outcomes : ConditionResponse(r, o, <<"p1">>)
    \/ setSelectedFile
    \/ analyzeExcel
    \/ \E r \in inflight, o \in Outcomes : ExcelResponse(r, o, <<"p1">>)
    \/ \E r \in inflight, o \in Outcomes : MemoryStatusResponse(r, o)
    \/ \E b \in Bars : ProgressTickWithin(b, MaxCapTicks)

SpecProgress == InitModes /\ [][NextProgress]_vars

\* SpecRequest: calls of APIService.request, one at a time, with every
\* response of HttpResponses.
NextRequest ==
    \/ \E caller \in {"testConnection", "request"} : request(caller)
    \/ \E response \in HttpResponses : FetchResolves(response)
    \/ FetchRejects

SpecRequest == Init /\ [][NextRequest]_vars

\* SpecUpload: calls of request() and of uploadAndAnalyzeExcel, one at a
\* time, with every response of HttpResponses.
NextUpload ==
    \/ \E caller \in {"testConnection", "request"} : request(caller)
    \/ \E response \in HttpResponses : FetchResolves(response)
    \/ FetchRejects
    \/ uploadAndAnalyzeExcel
    \/ \E response \in HttpResponses : UploadResolves(response)
    \/ UploadRejects

SpecUpload == Init /\ [][NextUpload]_vars

\* SpecStore: the result lists of the three modes and their export, from
\* the same state.
NextStore ==
    \/ \E key \in ApiKeys : manualSearch(key, MinDescriptionLength)
    \/ \E r \in inflight, o \in Outcomes, res \in RecordLists : TechResponse(r, o, res)
    \/ \E key \in ApiKeys, hasValid \in BOOLEAN : startConditionSearch(key, hasValid)
    \/ \E r \in inflight, o \in Outcomes, res \in RecordLists :
          ConditionResponse(r, o, res)
    \/ setSelectedFile
    \/ ClearFile
    \/ analyzeExcel
    \/ \E r \in inflight, o \in Outcomes, res \in RecordLists : ExcelResponse(r, o, res)
    \/ \E type \in {"tech", "condition"} : exportToExcel(type)
    \/ exportAnalysisResults
    \/ \E r \in inflight, o \in {"success", "error"} : ExportResponse(r, o)
    \/ \E r \in inflight, o \in Outcomes : MemoryStatusResponse(r, o)
    \/ reset

SpecStore == InitModes /\ [][NextStore]_vars

\* SpecCond: the condition rows under every drop, removal, added row and
\* clear-all, and the confirmed search they are collected for; the key is
\* verified.
InitCond == Start(TRUE, <<InitialConditionRow>>)

NextCond ==
    \/ \E i \in 1 .. MaxRows, k \in DropTexts : DropKeyword(i, k)
    \/ \E i \in 1 .. MaxRows, j \in 1 .. MaxKeywords : RemoveKeyword(i, j)
    \/ addConditionRow
    \/ \E i \in 1 .. MaxRows : SelectField(i, "CL")
    \/ \E i \in 1 .. MaxRows : SelectLogic(i, "OR")
    \/ ClearAllConditions
    \/ \E key \in ApiKeys : manualSearch(key, MinDescriptionLength)
    \/ \E r \in inflight, o \in Outcomes : TechResponse(r, o, <<>>)
    \/ \E r \in inflight, o \in Outcomes : MemoryStatusResponse(r, o)

SpecCond == InitCond /\ [][NextCond]_vars

\* ------------------------------------------------------------------ claims
\* The requests of a search mode: keyword generation and the confirmed
\* search belong to the technical-description mode.
ModeKinds(m) ==
    CASE m = "tech" -> {"keywords", "tech"}
      [] m = "condition" -> {"condition"}
      [] OTHER -> {"excel"}

ModeRequests(m) == {r \in inflight : r.kind \in ModeKinds(m)}

\* C1 (SpecModes): in every reachable state at most one network request is
\* outstanding per search mode, after any interleaving of starts, responses
\* and reset(). TLC refutes it: reset() clears the busy flags while the
\* request stays in flight, and the next start sends a second one.
C1_SingleFlightPerMode == \A m \in Modes : Cardinality(ModeRequests(m)) <= 1

\* A confirmed search is running: the busy flag is set and its request is
\* not answered yet.
TechRunning == app.isSearching /\ Outstanding("tech") # {}

\* A step of one of the calls that start a technical-description search.
TechStartStep ==
    \/ \E key \in ApiKeys, d \in DescriptionLengths : manualSearch(key, d)
    \/ \E key \in ApiKeys : autoGenerateAndSearch(key)
    \/ \E d \in DescriptionLengths : AutoDelayDone(d)

\* C2 as stated (Spec): while a confirmed search is running, every call that
\* starts a tech search is rejected with the busy error, sends no request
\* and leaves the busy flag set. TLC refutes the busy error: with the key
\* input emptied, or the key's verification lost in the meantime,
\* manualSearch and autoGenerateAndSearch return on the API-key check.
C2_StartRejectedBusy ==
    /\ [](TechRunning =>
            \A key \in ApiKeys : manualSearchMessage(key) = "busy-searching")
    /\ [][TechRunning /\ TechStartStep =>
            inflight' = inflight /\ app'.isSearching]_vars

\* C2 amended (Spec): while a confirmed search is running, no call that
\* starts a tech search sends a request or clears the busy flag;
\* executeSearch rejects with the busy error, and manualSearch does so
\* whenever its API-key check passes and otherwise rejects with the API-key
\* error.
C2_StartRejected ==
    /\ [](TechRunning =>
            /\ executeSearchMessage = "busy-searching"
            /\ \A key \in ApiKeys :
                  manualSearchMessage(key) =
                      IF validateApiKey(key) = "ok" THEN "busy-searching"
                      ELSE validateApiKey(key))
    /\ [][TechRunning /\ TechStartStep =>
            inflight' = inflight /\ app'.isSearching]_vars

\* A second start waits in its delay while a confirmed search is running.
C2_Witness == TechRunning /\ pendingAuto > 0 /\ app.apiKeyVerified

\* The requests that carry a session id in their body.
SessionKinds == {"keywords", "tech", "condition"}

\* C3 (Spec): every request that carries a session id (keyword generation,
\* confirmed search, condition search) is dispatched with a non-null
\* session id, also after reset(). TLC refutes it: reset() nulls SearchManager's id and
\* manualSearch sends it as it is.
C3_SessionOnDispatch ==
    \A r \in inflight : r.kind \in SessionKinds => r.sid # Null

\* The two copies of the result list of mode m: PatentSearchApp's and the
\* one of SearchManager (ExcelManager for the batch analysis).
StoreOf(m) ==
    << app.searchResults[m],
       IF m = "excel" THEN excelManager.currentAnalysisResults
       ELSE searchManager.searchResults[m] >>

\* The response of mode m is handled.
ModeResponse(m, r, outcome, results) ==
    CASE m = "tech" -> TechResponse(r, outcome, results)
      [] m = "condition" -> ConditionResponse(r, outcome, results)
      [] OTHER -> ExcelResponse(r, outcome, results)

\* C4 (SpecStore): a mode's result list changes only when a success response
\* of that mode is handled, and then it becomes exactly that response's
\* record list, or when it is cleared to null (reset, clear-file); a
\* dispatch, a response without the success flag and an error leave it.
C4_StoreReplacedBySuccess ==
    [][\A m \in Modes :
        /\ \A r \in inflight, res \in RecordLists :
              ModeResponse(m, r, "success", res) => StoreOf(m)' = <<res, res>>
        /\ \A r \in inflight, res \in RecordLists, o \in {"nosuccess", "error"} :
              ModeResponse(m, r, o, res) => StoreOf(m)' = StoreOf(m)
        /\ StoreOf(m)' # StoreOf(m) =>
              \/ \E r \in inflight, res \in RecordLists :
                    ModeResponse(m, r, "success", res)
              \/ /\ reset \/ ClearFile
                 /\ \A i \in 1 .. 2 : StoreOf(m)'[i] \in {NullList, StoreOf(m)[i]}
      ]_vars

\* A new confirmed search is in flight over the results of an earlier one.
C4_Witness ==
    /\ StoreOf("tech") = << <<"p1">>, <<"p1">> >>
    /\ Outstanding("tech") # {}
    /\ StoreOf("excel")[1] # NullList

\* The progress bar is at 0 and no timer is scheduled for it.
BarIdle(b) == uiManager.width[b] = 0 /\ ~uiManager.progressIntervals[b].active

\* generateKeywords or executeSearch returns after its busy check: on a
\* validation rejection or on the response it awaited.
TechReturnStep ==
    \/ \E key \in ApiKeys, d \in DescriptionLengths :
          /\ generateKeywordsMessage(key, d) \notin BeforeTry \cup {""}
          /\ generateKeywords(key, d)
    \/ \E key \in ApiKeys, d \in DescriptionLengths :
          /\ manualSearchMessage(key) \notin BeforeTry \cup {""}
          /\ manualSearch(key, d)
    \/ \E r \in inflight, o \in Outcomes :
          KeywordsResponse(r, o, r.sid, <<>>)
    \/ \E r \in inflight, o \in Outcomes, res \in RecordLists :
          TechResponse(r, o, res)

ConditionReturnStep ==
    \/ \E key \in ApiKeys :
          /\ startConditionSearchMessage(key, FALSE) \notin BeforeTry
          /\ startConditionSearch(key, FALSE)
    \/ \E r \in inflight, o \in Outcomes, res \in RecordLists :
          ConditionResponse(r, o, res)

ExcelReturnStep ==
    \E r \in inflight, o \in Outcomes, res \in RecordLists : ExcelResponse(r, o, res)

\* C5 (SpecModes): whenever generateKeywords, executeSearch,
\* startConditionSearch or analyzeExcel returns after having passed its busy
\* check (success, response without the success flag, error, validation
\* rejection), its busy flag is false, its progress bar is at 0 and no
\* progress timer remains scheduled for that bar. Stated by contraposition:
\* a step that ends with the flag set, the bar off 0 or a timer scheduled is
\* no return of that handler.
C5_ReturnLeavesIdle ==
    [][/\ ~(~app'.isSearching /\ BarIdle("progress-fill")') => ~TechReturnStep
       /\ ~(~app'.isSearching /\ BarIdle("progress-fill-condition")')
             => ~ConditionReturnStep
       /\ ~(~excelManager'.isProcessing /\ BarIdle("progress-fill-excel")')
             => ~ExcelReturnStep
      ]_vars

\* A confirmed search has returned with results while a batch analysis is
\* running and its timer has ticked.
C5_Witness ==
    /\ app.searchResults["tech"] = <<"p1">>
    /\ ~app.isSearching
    /\ BarIdle("progress-fill")
    /\ excelManager.isProcessing
    /\ uiManager.progressIntervals["progress-fill-excel"].progress > 0

\* A precondition of a tech-description search fails for the key and the
\* description length read from the form.
PreconditionFails(key, d) ==
    \/ validateApiKey(key) # "ok"
    \/ d < MinDescriptionLength
    \/ Len(collectSearchConditions(rows)) = 0

\* C6 (Spec): a start of a tech-description search (manualSearch, or
\* autoGenerateAndSearch and the executeSearch it leads to) sends no request
\* and leaves the mode idle whenever the API key is missing or unverified,
\* the description is shorter than 50 characters or no condition is
\* collected. TLC refutes it: executeSearch never looks at the length of
\* the description.
C6_RejectedOnFailedPrecondition ==
    [][~app.isSearching =>
        /\ \A key \in ApiKeys, d \in DescriptionLengths :
              PreconditionFails(key, d) /\ manualSearch(key, d) =>
                  inflight' = inflight /\ ~app'.isSearching
        /\ \A key \in ApiKeys :
              validateApiKey(key) # "ok" /\ autoGenerateAndSearch(key) =>
                  UNCHANGED <<inflight, pendingAuto>> /\ ~app'.isSearching
        /\ \A d \in DescriptionLengths :
              /\ d < MinDescriptionLength \/ Len(collectSearchConditions(rows)) = 0
              /\ AutoDelayDone(d)
              => inflight' = inflight /\ ~app'.isSearching
      ]_vars

\* C7 (Spec): generateKeywords with an empty description or one shorter than
\* 50 characters fails validation and sends no request; a description of
\* exactly 50 characters passes the length check and is sent.
C7_ShortDescriptionRejected ==
    /\ [](\A key \in ApiKeys :
            validateApiKey(key) = "ok" /\ ~app.isSearching =>
                /\ generateKeywordsMessage(key, 0) = "description-missing"
                /\ \A d \in 1 .. (MinDescriptionLength - 1) :
                      generateKeywordsMessage(key, d) = "description-too-short"
                /\ generateKeywordsMessage(key, MinDescriptionLength) = "")
    /\ [](\A r \in Outstanding("keywords") : r.description >= MinDescriptionLength)
    /\ [][\A key \in ApiKeys, d \in DescriptionLengths :
            d < MinDescriptionLength /\ generateKeywords(key, d) =>
                inflight' = inflight /\ ~app'.isSearching]_vars

\* A keyword request for a description of exactly 50 characters is in flight.
C7_Witness ==
    \E r \in Outstanding("keywords") : r.description = MinDescriptionLength

\* The row holds at least one keyword: a span whose text, read back and
\* trimmed, is not blank.
HoldsKeyword(row) ==
    \E j \in 1 .. Len(row.keywords) : Trim(row.keywords[j]) # ""

\* The keywords of the rows that hold one, as the spans show them.
KeywordsOfRows ==
    UNION {{Trim(rows[i].keywords[j]) : j \in 1 .. Len(rows[i].keywords)} :
           i \in 1 .. Len(rows)} \ {""}

\* C8 (SpecCond): collectSearchConditions returns, in row order, exactly the
\* condition rows that hold at least one keyword (a row without one never
\* appears), each with its field and logic and no empty keyword list; and
\* no confirmed-search request is dispatched with an empty
\* selected-keyword list or with a text that is no keyword of a row.
C8_CollectsRowsWithKeywords ==
    /\ [](LET c == collectSearchConditions(rows)
              holding == {i \in 1 .. Len(rows) : HoldsKeyword(rows[i])}
          IN  /\ {c[n].condition_index + 1 : n \in 1 .. Len(c)} = holding
              /\ Len(c) = Cardinality(holding)
              /\ \A n \in 1 .. Len(c) - 1 :
                    c[n].condition_index < c[n + 1].condition_index
              /\ \A n \in 1 .. Len(c) :
                    LET row == rows[c[n].condition_index + 1]
                    IN  /\ c[n].keywords # <<>>
                        /\ \A j \in 1 .. Len(c[n].keywords) : c[n].keywords[j] # ""
                        /\ c[n].field = row.field
                        /\ c[n].logic = row.logic)
    /\ [](\A r \in Outstanding("tech") :
            r.selected # <<>> /\ \A j \in 1 .. Len(r.selected) : r.selected[j] # "")
    /\ [][\A r \in inflight' \ inflight :
            r.kind = "tech" =>
                {r.selected[j] : j \in 1 .. Len(r.selected)} = KeywordsOfRows]_vars

\* A confirmed search is in flight for two rows of which the first holds
\* only a blank span.
C8_Witness ==
    /\ Len(rows) = 2
    /\ rows[1].keywords = <<"">>
    /\ HoldsKeyword(rows[2])
    /\ Outstanding("tech") # {}

\* C9 (SpecStore): for every mode, export fails with the no-data error and
\* reaches neither the export collaborator nor the network whenever the
\* mode's stored record list is absent or empty. TLC refutes it for the
\* batch analysis: exportAnalysisResults only asks whether an analysis is
\* stored, and sends the export request for an analysis with no record.
C9_ExportNeedsData ==
    /\ [](\A type \in {"tech", "condition"} :
            NoExportData(searchManager.searchResults[type]) =>
                exportToExcelMessage(type) = "export-failed: no data")
    /\ [](NoExportData(excelManager.currentAnalysisResults) =>
            exportAnalysisResultsMessage = "export-failed: no analysis results")
    /\ [][/\ \A type \in {"tech", "condition"} :
               NoExportData(searchManager.searchResults[type]) /\ exportToExcel(type)
                   => UNCHANGED <<downloads, inflight>>
          /\ NoExportData(excelManager.currentAnalysisResults) /\ exportAnalysisResults
                   => UNCHANGED <<downloads, inflight>>]_vars

\* C10 (Spec): a success response to a confirmed search with an empty result
\* list sets the tech result list (both copies) to the empty list, not
\* null, and the result display is given zero patents; while the list is
\* empty an export of 'tech' fails with the no-data error and writes no
\* file.
C10_EmptySuccess ==
    /\ [][\A r \in inflight :
            TechResponse(r, "success", <<>>) =>
                /\ searchManager'.searchResults["tech"] = <<>>
                /\ app'.searchResults["tech"] = <<>>
                /\ uiManager'.patentList["tech"] = <<>>]_vars
    /\ [](searchManager.searchResults["tech"] = <<>> =>
            exportToExcelMessage("tech") = "export-failed: no data")
    /\ [][downloads' # downloads /\ exportToExcel("tech") =>
            searchManager.searchResults["tech"] \notin {NullList, <<>>}]_vars

\* The empty list of a successful confirmed search is stored and shown.
C10_Witness ==
    /\ searchManager.searchResults["tech"] = <<>>
    /\ app.searchResults["tech"] = <<>>
    /\ uiManager.patentList["tech"] = <<>>

\* SpecRetry: calls of requestWithRetry with every retry count up to
\* MaxRetryCount and the delays of RetryDelays, each attempt returning a body
\* or throwing.
RetryDelays == {DefaultDelay, ShortDelay}

NextRetry ==
    \/ \E n \in 0 .. MaxRetryCount, d \in RetryDelays : requestWithRetry(n, d)
    \/ \E outcome \in Outcomes : RetryResponse(outcome)
    \/ RetryDelayDone

SpecRetry == Init /\ [][NextRetry]_vars

\* SpecSession: the handlers that set or send session ids, with inputs that
\* pass their checks; a keyword response carries the request's session id,
\* an id of the backend's own, or none.
BackendSessionId == MaxSessionIds + 1

NextSession ==
    \/ \E key \in {"keyA"} : generateKeywords(key, MinDescriptionLength)
    \/ \E r \in inflight, outcome \in Outcomes :
          \E session_id \in {r.sid, BackendSessionId, Null} :
             KeywordsResponse(r, outcome, session_id, <<>>)
    \/ \E key \in {"keyA"} : manualSearch(key, MinDescriptionLength)
    \/ \E r \in inflight, outcome \in Outcomes : TechResponse(r, outcome, <<"p1">>)
    \/ \E key \in {"keyA"} : startConditionSearch(key, TRUE)
    \/ \E r \in inflight, outcome \in Outcomes :
          ConditionResponse(r, outcome, <<"p1">>)
    \/ \E r \in inflight, outcome \in Outcomes : MemoryStatusResponse(r, outcome)
    \/ reset

SpecSession == InitModes /\ [][NextSession]_vars

\* SpecBind: the handlers of SpecSession with a chat question and its
\* response, so that searches and questions are in flight while the session
\* ids change.
NextBind ==
    \/ \E key \in {"keyA"} : generateKeywords(key, MinDescriptionLength)
    \/ \E r \in inflight, outcome \in Outcomes :
          \E session_id \in {r.sid, BackendSessionId, Null} :
             KeywordsResponse(r, outcome, session_id, <<>>)
    \/ \E key \in {"keyA"} : manualSearch(key, MinDescriptionLength)
    \/ \E r \in inflight, outcome \in Outcomes : TechResponse(r, outcome, <<"p1">>)
    \/ \E key \in {"keyA"} : startConditionSearch(key, TRUE)
    \/ \E r \in inflight, outcome \in Outcomes :
          ConditionResponse(r, outcome, <<"p1">>)
    \/ \E r \in inflight, outcome \in Outcomes : MemoryStatusResponse(r, outcome)
    \/ sendChatMessage("q1")
    \/ \E r \in inflight, outcome \in Outcomes : ChatResponse(r, outcome)
    \/ reset

SpecBind == InitModes /\ [][NextBind]_vars

\* SpecAuto: autoGenerateAndSearch and the drops that may fall in its delay,
\* from the state a successful keyword generation leaves, for each list of
\* keyword groups the response may have carried: none, one or two groups,
\* groups without a keyword or without any term, a synonym that repeats the
\* keyword, and a blank synonym.
AutoGroupLists ==
    { <<>>,
      <<Group("k1", <<>>)>>,
      <<Group("k1", <<"k2">>), Group("k2", <<>>)>>,
      <<Group("k1", <<"k1">>)>>,
      <<Group("", <<"k2">>), Group("k1", <<" k1">>)>>,
      <<Group("", <<>>), Group("k2", <<>>)>>,
      <<Group("k1", <<>>), Group("", <<>>)>>,
      <<Group("", <<"">>)>> }

InitAuto ==
    \E groups \in AutoGroupLists :
        /\ app = [isSearching |-> FALSE, apiKeyVerified |-> TRUE,
                  currentSessionId |-> 1,
                  searchResults |-> [m \in Modes |-> NullList]]
        /\ searchManager = [currentSessionId |-> 1, generatedKeywords |-> groups,
                            searchResults |-> [m \in {"tech", "condition"} |-> NullList]]
        /\ chatManager = [chatEnabled |-> FALSE, memoryEnabled |-> TRUE,
                          chatHistory |-> <<>>, confirming |-> 0,
                          currentSessionId |-> 1, memoryStatus |-> "initial"]
        /\ excelManager = [selectedFile |-> FALSE,
                           currentAnalysisResults |-> NullList,
                           isProcessing |-> FALSE]
        /\ uiManager = [progressIntervals |-> [b \in Bars |-> NoTimer],
                        width |-> [b \in Bars |-> 0],
                        patentList |-> [m \in Modes |-> NullList]]
        /\ rows = <<InitialConditionRow>>
        /\ inflight = {}
        /\ pendingAuto = 0
        /\ downloads = 0
        /\ issued = 1
        /\ retry = NoRetry
        /\ apiService = NoCall

NextAuto ==
    \/ \E key \in ApiKeys : autoGenerateAndSearch(key)
    \/ AutoDelayDone(MinDescriptionLength)
    \/ \E r \in inflight, outcome \in Outcomes : TechResponse(r, outcome, <<"p1">>)
    \/ \E r \in inflight, outcome \in Outcomes : MemoryStatusResponse(r, outcome)
    \/ \E i \in 1 .. MaxRows, k \in SearchDropTexts : DropKeyword(i, k)
    \/ \E i \in 1 .. MaxRows : RemoveKeyword(i, 1)

SpecAuto == InitAuto /\ [][NextAuto]_vars

\* SpecOnce: every operation that sends without retry, with inputs that
\* pass its checks: keyword generation, confirmed search, condition search,
\* file upload and, once a search has unlocked the chat, chat questions.
NextOnce ==
    \/ \E key \in {"keyA"} : generateKeywords(key, MinDescriptionLength)
    \/ \E r \in inflight, outcome \in Outcomes :
          KeywordsResponse(r, outcome, r.sid, <<>>)
    \/ \E key \in {"keyA"} : manualSearch(key, MinDescriptionLength)
    \/ \E r \in inflight, outcome \in Outcomes : TechResponse(r, outcome, <<"p1">>)
    \/ \E key \in {"keyA"} : startConditionSearch(key, TRUE)
    \/ \E r \in inflight, outcome \in Outcomes :
          ConditionResponse(r, outcome, <<"p1">>)
    \/ setSelectedFile
    \/ analyzeExcel
    \/ \E r \in inflight, outcome \in Outcomes : ExcelResponse(r, outcome, <<"p1">>)
    \/ \E message \in {"q1"} : sendChatMessage(message)
    \/ \E r \in inflight, outcome \in Outcomes : ChatResponse(r, outcome)
    \/ \E r \in inflight, outcome \in Outcomes : MemoryStatusResponse(r, outcome)

SpecOnce == InitModes /\ [][NextOnce]_vars

\* C14: a handler run sends at most one request; a request of keyword
\* generation, confirmed search, condition search, file upload or a chat
\* question is sent only by a run that handles no response (the user's
\* invocation, never a response handler repeating it); and after a failed
\* response of one of these operations no request of its kind is
\* outstanding that was not outstanding before: nothing is sent again.
OnceKinds == {"keywords", "tech", "condition", "excel"} \cup ChatKinds

FailureOutcomes == {"nosuccess", "error"}

FailureStep(r) ==
    \E outcome \in FailureOutcomes :
        \/ KeywordsResponse(r, outcome, r.sid, <<>>)
        \/ TechResponse(r, outcome, <<"p1">>)
        \/ ConditionResponse(r, outcome, <<"p1">>)
        \/ ExcelResponse(r, outcome, <<"p1">>)
        \/ ChatResponse(r, outcome)

C14_OneRequestPerInvocation ==
    [][/\ Cardinality(inflight' \ inflight) <= 1
       /\ \A n \in inflight' \ inflight :
             n.kind \in OnceKinds => inflight \subseteq inflight'
       /\ \A r \in inflight :
             (r.kind \in OnceKinds /\ FailureStep(r))
                => {n \in inflight' : n.kind = r.kind} \subseteq inflight \ {r}]_vars

\* C14 witness: a chat question has failed (the transcript ends with its
\* error) and no question is outstanding; a file is selected, no upload is
\* outstanding and no analysis is stored.
C14_Witness ==
    /\ chatManager.chatHistory # <<>>
    /\ LastTurn(chatManager) = ErrorTurn("api")
    /\ \A r \in inflight : r.kind \notin ChatKinds
    /\ excelManager.selectedFile
    /\ ~excelManager.isProcessing
    /\ excelManager.currentAnalysisResults = NullList
    /\ Outstanding("excel") = {}

\* What the catch block of the handler awaiting a request of the given kind
\* shows through uiManager.showError: the catch blocks of the searches, the
\* upload, the exports, the connection test, showChatHistory and
\* clearChatMemory call it; sendChatMessage's pushes an assistant entry
\* instead, and updateMemoryStatus's only calls console.error.
caughtErrorShown(kind) ==
    CASE kind \in ChatKinds -> ""
      [] kind = "memory-status" -> ""
      [] kind = "history" -> "history-failed"
      [] kind = "clear-memory" -> "clear-memory-failed"
      [] OTHER -> "failed"

\* The response handlers of ChatManager run their catch block for the
\* error of request r.
ChatErrorStep(r) ==
    \/ ChatResponse(r, "error")
    \/ ClearMemoryResponse(r, "error")
    \/ MemoryStatusResponse(r, "error")

\* C15 (SpecChat): every error a ChatManager handler catches is surfaced to
\* the user, by an error message or by an entry on the transcript. TLC
\* refutes it: the catch block of updateMemoryStatus shows nothing and
\* raises nothing.
C15_ErrorsSurfaced ==
    [][\A r \in inflight :
          ChatErrorStep(r)
             => \/ caughtErrorShown(r.kind) # ""
                \/ Len(chatManager'.chatHistory) > Len(chatManager.chatHistory)]_vars

\* C11: a chat send that reaches callQwenAPI while ChatManager holds no
\* session id, with or without memory mode, fails at once with the
\* session-not-set error (the transcript ends with the question and that
\* error) and sends no request.
SendStep == \E message \in ChatInputs \ {""} : sendChatMessage(message)

C11_SendWithoutSession ==
    /\ [](chatManager.currentSessionId = Null
            => callQwenAPIError(chatManager) = "session-not-set")
    /\ [][(/\ chatManager.chatEnabled
           /\ chatManager.currentSessionId = Null
           /\ SendStep)
            => /\ inflight' = inflight
               /\ Len(chatManager'.chatHistory) = Len(chatManager.chatHistory) + 2
               /\ LastTurn(chatManager') = ErrorTurn("session-not-set")]_vars

\* C11 witness: without a session id and with memory mode off, a question
\* was sent and answered with the session-not-set error.
C11_Witness ==
    /\ chatManager.currentSessionId = Null
    /\ Len(chatManager.chatHistory) >= 2
    /\ LastTurn(chatManager) = ErrorTurn("session-not-set")
    /\ chatManager.chatHistory[Len(chatManager.chatHistory) - 1]
          = Turn("user", "q1", FALSE)
    /\ \A r \in inflight : r.kind \notin ChatKinds

\* C16: every step other than reset() leaves the entries of the transcript
\* in place: the transcript before the step is a prefix of the transcript
\* after it (send, its success and its failure, toggleMemoryMode, the
\* use-memory checkbox, updateMemoryStatus, showChatHistory, clearChatMemory,
\* its dialog, its success and its failure).
IsPrefix(a, b) == Len(a) <= Len(b) /\ SubSeq(b, 1, Len(a)) = a

C16_TranscriptAppendOnly ==
    [][reset \/ IsPrefix(chatManager.chatHistory, chatManager'.chatHistory)]_vars

\* C16 witness: a question was asked and answered, and clearChatMemory was
\* confirmed and succeeded after it: the three entries are on the transcript.
C16_Witness ==
    /\ Len(chatManager.chatHistory) = 3
    /\ chatManager.chatHistory[1].type = "user"
    /\ chatManager.chatHistory[2] = Turn("assistant", "a1", TRUE)
    /\ chatManager.chatHistory[3] = Turn("system", "memory-cleared", FALSE)

\* C17: a send that reaches the backend appends the user entry of the
\* question when it is sent, and its success appends the assistant entry
\* of the answer at the end of the transcript, so the user entry comes
\* first: as long as the chat has not been reset, every assistant entry is
\* preceded by its own user entry and every question in flight has its user
\* entry on the transcript. A memory-status request is sent only by a step
\* that has appended an entry (the answer, or the notice of a cleared
\* memory), and never by a failed answer.
CountTurns(type, k) ==
    Cardinality({j \in 1 .. k : chatManager.chatHistory[j].type = type})

AskedBeforeAnswered ==
    LET n == Len(chatManager.chatHistory)
    IN  /\ \A k \in 1 .. n : CountTurns("assistant", k) <= CountTurns("user", k)
        /\ CountTurns("assistant", n)
              + Cardinality({r \in inflight : r.kind \in ChatKinds})
             = CountTurns("user", n)

C17_AskAnswerRefresh ==
    /\ [](chatManager.chatEnabled => AskedBeforeAnswered)
    /\ [][\A r \in inflight :
            /\ ChatResponse(r, "success")
                 => chatManager'.chatHistory
                      = Append(chatManager.chatHistory,
                               Turn("assistant", "a1", chatManager.memoryEnabled))
            /\ (\E outcome \in FailureOutcomes : ChatResponse(r, outcome))
                 => \A n \in inflight' \ inflight : n.kind # "memory-status"]_vars
    /\ [][\A n \in inflight' \ inflight :
            n.kind \in ChatKinds
              => chatManager'.chatHistory
                   = Append(chatManager.chatHistory,
                            Turn("user", "q1", chatManager.memoryEnabled))]_vars
    /\ [][\A n \in inflight' \ inflight :
            n.kind = "memory-status"
              => /\ Len(chatManager'.chatHistory) = Len(chatManager.chatHistory) + 1
                 /\ LastTurn(chatManager').type \in {"assistant", "system"}]_vars

\* C17 witness: the transcript is the question and then its answer, and the
\* memory-status request of that answer is in flight (the one sent when the
\* chat was unlocked has been answered).
C17_Witness ==
    /\ chatManager.chatHistory
          = <<Turn("user", "q1", TRUE), Turn("assistant", "a1", TRUE)>>
    /\ chatManager.memoryStatus = "fetched"
    /\ Outstanding("memory-status") # {}
    /\ \A r \in inflight : r.kind \notin ChatKinds

\* C18: when the success response of a keyword generation that carries a
\* session id is handled, PatentSearchApp, SearchManager and ChatManager all
\* hold that id when the handler ends, whatever ids they held before.
BackendIssued(r) == {r.sid, BackendSessionId} \ {Null}

C18_SessionIdAdopted ==
    [][\A r \in inflight : \A session_id \in BackendIssued(r) :
          KeywordsResponse(r, "success", session_id, <<>>)
             => /\ app'.currentSessionId = session_id
                /\ searchManager'.currentSessionId = session_id
                /\ chatManager'.currentSessionId = session_id]_vars

\* C18 witness: after the client has generated a second id of its own (in
\* reset() or in a condition search), a keyword generation has returned
\* the backend's id and all three hold it.
C18_Witness ==
    /\ issued >= 2
    /\ app.currentSessionId = BackendSessionId
    /\ searchManager.currentSessionId = BackendSessionId
    /\ chatManager.currentSessionId = BackendSessionId
    /\ Outstanding("keywords") = {}

\* C19: when the success response of a search of any mode has been handled,
\* the chat is enabled; enableChat runs only when the chat is not enabled:
\* while it is enabled no step sends enableChat's memory-status request,
\* and only reset() disables it, so the chat is unlocked at most once
\* between two resets.
SearchSuccessStep ==
    \E m \in Modes : \E r \in inflight : ModeResponse(m, r, "success", <<"p1">>)

C19_UnlockedOnce ==
    /\ [][~chatManager'.chatEnabled => ~SearchSuccessStep]_vars
    /\ [][chatManager.chatEnabled
            => /\ \A n \in inflight' \ inflight : n.kind # "memory-status"
               /\ chatManager'.chatEnabled \/ reset]_vars

\* C19 witness: a confirmed search and a condition search have both
\* succeeded; the chat is enabled and the one memory-status request of its
\* unlocking has been answered.
C19_Witness ==
    /\ chatManager.chatEnabled
    /\ app.searchResults["tech"] = <<"p1">>
    /\ app.searchResults["condition"] = <<"p1">>
    /\ chatManager.memoryStatus = "fetched"
    /\ inflight = {}

\* C20 (SpecCond): however often a keyword is dropped on a row, the row
\* holds it once: no row has two spans of the same keyword. TLC refutes it:
\* a keyword with surrounding white space is compared untrimmed with the
\* trimmed texts of the spans, is never found, and is added again.
C20_KeywordOncePerRow ==
    \A i \in 1 .. Len(rows) :
        \A a, b \in 1 .. Len(rows[i].keywords) :
            a # b => rows[i].keywords[a] # rows[i].keywords[b]

\* C21 (SpecCond): addConditionRow appends one row after the existing ones,
\* which it leaves as they are, and the new row has no keywords, field AB
\* (abstract) and logic AND. TLC refutes it: the field <select> of
\* createConditionRow marks no option as selected, so the new row shows its
\* first option, TI (title).
C21_AppendedRowDefaults ==
    [][addConditionRow
         => rows' = Append(rows, [keywords |-> <<>>, field |-> "AB",
                                  logic |-> "AND"])]_vars

\* C22: from any rows, keywords and selections, clearAllConditions leaves
\* exactly one condition row, and that row has no keywords.
C22_ClearAllLeavesOneEmptyRow ==
    [][ClearAllConditions
         => Len(rows') = 1 /\ rows'[1].keywords = <<>>]_vars

\* C22 witness: the rows have been cleared: one row without keywords whose
\* field shows the first option again, which no other handler of this
\* specification selects.
C22_Witness ==
    rows = << [keywords |-> <<>>, field |-> FieldOptions[1],
               logic |-> LogicOptions[1]] >>

\* The terms autoGenerateConditions collects for a group: its keyword, when
\* it has one, and its synonyms.
Terms(group) ==
    (IF group.keyword # "" THEN <<group.keyword>> ELSE <<>>) \o group.synonyms

TrimmedSet(seq) == {Trim(seq[j]) : j \in 1 .. Len(seq)}

\* The group has a term that is not blank.
HasSearchTerm(group) == TrimmedSet(Terms(group)) \ {""} # {}

\* autoGenerateAndSearch passes its key check and runs
\* autoGenerateConditions.
AutoGenerateStep == \E key \in ApiKeys : autoGenerateAndSearch(key)

\* The rows after the step are the groups: one row per group in group
\* order, holding the group's terms, with field AB and logic AND, and
\* collectSearchConditions returns every one of them.
RowsAreGroups(groups) ==
    /\ Len(rows') = Len(groups)
    /\ \A i \in 1 .. Len(rows') :
          /\ i <= Len(groups)
                => TrimmedSet(rows'[i].keywords) = TrimmedSet(Terms(groups[i]))
          /\ rows'[i].field = "AB"
          /\ rows'[i].logic = "AND"
    /\ Len(collectSearchConditions(rows')) = Len(rows')
    /\ \A i \in 1 .. Len(collectSearchConditions(rows')) :
          collectSearchConditions(rows')[i].condition_index = i - 1

\* C23 as stated (SpecAuto): for every non-empty list of keyword groups,
\* autoGenerateConditions leaves one collected row per group. TLC refutes
\* it: a group without terms gets no row, and a row whose terms are all
\* blank is not collected.
C23_RowPerGroup ==
    [][(AutoGenerateStep /\ searchManager.generatedKeywords # <<>>)
         => RowsAreGroups(searchManager.generatedKeywords)]_vars

\* C23: for every non-empty list of keyword groups each of which has a term
\* that is not blank, autoGenerateConditions leaves exactly one row per
\* group, in group order, holding the group's keyword and synonyms (each
\* once), with field AB and logic AND, and collectSearchConditions returns
\* all of those rows.
C23_RowPerGroupWithTerm ==
    [][(/\ AutoGenerateStep
        /\ searchManager.generatedKeywords # <<>>
        /\ \A g \in 1 .. Len(searchManager.generatedKeywords) :
              HasSearchTerm(searchManager.generatedKeywords[g]))
         => RowsAreGroups(searchManager.generatedKeywords)]_vars

\* C23 witness: two groups, the first with a synonym, have become two rows
\* (the delay of autoGenerateAndSearch is still running).
C23_Witness ==
    /\ pendingAuto > 0
    /\ searchManager.generatedKeywords
          = <<Group("k1", <<"k2">>), Group("k2", <<>>)>>
    /\ rows = << [keywords |-> <<"k1", "k2">>, field |-> "AB", logic |-> "AND"],
                 [keywords |-> <<"k2">>, field |-> "AB", logic |-> "AND"] >>

\* The delay of a pending autoGenerateAndSearch ends.
AutoDelayStep == AutoDelayDone(MinDescriptionLength)

\* C24 as stated (SpecAuto): an autoGenerateAndSearch started with an empty
\* list of keyword groups sends no request. TLC refutes it: a keyword
\* dropped on the emptied row during the 500 ms delay is collected by the
\* executeSearch that follows, which sends the request.
C24_NoRequestWithoutGroups ==
    [][(searchManager.generatedKeywords = <<>> /\ AutoDelayStep)
         => inflight' = inflight]_vars

\* C24: with an empty list of keyword groups autoGenerateConditions shows
\* its error and returns: the rows are one row without keywords, nothing
\* is sent, and autoGenerateAndSearch goes on to its delay; the
\* executeSearch after the delay sends no request as long as no row holds
\* a keyword by then.
C24_EmptyGroupsReported ==
    /\ [](\A key \in ApiKeys :
            (validateApiKey(key) = "ok" /\ searchManager.generatedKeywords = <<>>)
               => autoGenerateAndSearchMessage(key) = "no-keyword-groups")
    /\ [][(searchManager.generatedKeywords = <<>> /\ AutoGenerateStep)
            => /\ Len(rows') = 1
               /\ rows'[1].keywords = <<>>
               /\ inflight' = inflight
               /\ pendingAuto' = pendingAuto + 1]_vars
    /\ [][(collectSearchConditions(rows) = <<>> /\ AutoDelayStep)
            => inflight' = inflight /\ app'.isSearching = app.isSearching]_vars

\* C24 witness: autoGenerateAndSearch has run with no keyword groups: the
\* rows are the one cleared row, nothing is in flight, and its delay is
\* running.
C24_Witness ==
    /\ searchManager.generatedKeywords = <<>>
    /\ pendingAuto > 0
    /\ rows = clearAllConditions(rows)
    /\ inflight = {}

\* C25 (SpecModes): each mode has a busy guard of its own: a start of a mode
\* none of whose requests is outstanding is not rejected as busy, whatever
\* runs in the other modes. TLC refutes it: generateKeywords, executeSearch
\* and startConditionSearch share PatentSearchApp.isSearching, so a
\* condition search is rejected while a technical-description search runs
\* (and the other way round); only the excel analysis has its own flag.
C25_ModesIndependent ==
    /\ ModeRequests("condition") = {}
          => startConditionSearchMessage("keyA", TRUE) # "busy-searching"
    /\ ModeRequests("tech") = {}
          => /\ manualSearchMessage("keyA") # "busy-searching"
             /\ generateKeywordsMessage("keyA", MinDescriptionLength)
                   # "busy-processing"
    /\ ModeRequests("excel") = {}
          => analyzeExcelMessage # "busy-excel"

\* C26: when every dispatched call eventually resolves or rejects, an
\* operation that entered the running state (generateKeywords, executeSearch,
\* startConditionSearch, analyzeExcel) eventually leaves its mode idle again,
\* and in an idle mode a new start is not rejected as busy.
C26_RunningReturnsToIdle ==
    /\ \A kind \in {"keywords", "tech", "condition"} :
          (Outstanding(kind) # {} /\ app.isSearching) ~> ~app.isSearching
    /\ (Outstanding("excel") # {} /\ excelManager.isProcessing)
          ~> ~excelManager.isProcessing
    /\ [](~app.isSearching =>
            /\ generateKeywordsMessage("keyA", MinDescriptionLength) = ""
            /\ manualSearchMessage("keyA") \notin {"busy-searching"}
            /\ startConditionSearchMessage("keyA", TRUE) = "")
    /\ []((excelManager.selectedFile /\ ~excelManager.isProcessing) =>
            analyzeExcelMessage = "")

\* A search failed, its mode is idle again and the next start is accepted.
C26_Witness ==
    /\ ~app.isSearching
    /\ ~excelManager.isProcessing
    /\ inflight = {}
    /\ app.searchResults["tech"] # NullList
    /\ excelManager.currentAnalysisResults # NullList
    /\ manualSearchMessage("keyA") = ""

\* C27: a search or chat request carries the session id its manager holds
\* when it is dispatched; while it is in flight no step (a keyword-generation
\* success and reset() included) changes the id it carries; and the handling
\* of its response changes no session id and binds the memory-status request
\* that follows to the id ChatManager holds then, not to the request's.
SearchKinds == {"tech", "condition"}

ResponseStep(r) ==
    \E outcome \in Outcomes :
       \/ TechResponse(r, outcome, <<"p1">>)
       \/ ConditionResponse(r, outcome, <<"p1">>)
       \/ ChatResponse(r, outcome)

C27_BoundAtDispatch ==
    [][/\ \A r \in inflight : \A r2 \in inflight' :
             (r.kind \in SearchKinds \cup ChatKinds /\ r2.id = r.id /\ r2.kind = r.kind)
                => r2.sid = r.sid
       /\ \A r2 \in inflight' \ inflight :
             /\ r2.kind \in SearchKinds
                   => r2.sid = searchManager'.currentSessionId
             /\ r2.kind \in ChatKinds
                   => r2.sid # Null /\ r2.sid = chatManager.currentSessionId
       /\ \A r \in inflight : ResponseStep(r) =>
             /\ app'.currentSessionId = app.currentSessionId
             /\ searchManager'.currentSessionId = searchManager.currentSessionId
             /\ chatManager'.currentSessionId = chatManager.currentSessionId
             /\ \A r2 \in inflight' \ inflight :
                   r2.sid = chatManager.currentSessionId]_vars

\* C27 witness: a search and a question are in flight, each with an id its
\* manager no longer holds.
C27_Witness ==
    /\ \E r \in inflight : /\ r.kind \in SearchKinds
                            /\ r.sid # searchManager.currentSessionId
    /\ \E r \in inflight : /\ r.kind \in ChatKinds
                            /\ r.sid # chatManager.currentSessionId

\* C28: reset() leaves the requests in flight as they are, and the success
\* response of a confirmed search that was dispatched before a reset() is
\* applied all the same: its records are in the stores of PatentSearchApp and
\* SearchManager and in the result list when the handler ends.
DispatchedBeforeReset(r) ==
    /\ r.kind = "tech"
    /\ r.sid # Null
    /\ searchManager.currentSessionId = Null

C28_StaleResponseApplied ==
    [][/\ reset => inflight' = inflight
       /\ \A r \in inflight, results \in RecordLists :
             (DispatchedBeforeReset(r) /\ TechResponse(r, "success", results))
                => /\ app'.searchResults["tech"] = orEmpty(results)
                   /\ searchManager'.searchResults["tech"] = orEmpty(results)
                   /\ uiManager'.patentList["tech"] = orEmpty(results)
                   /\ r \notin inflight']_vars

\* C28 witness: reset() has emptied the stores while a confirmed search is
\* still in flight.
C28_Witness ==
    /\ \E r \in inflight : DispatchedBeforeReset(r)
    /\ ~app.isSearching
    /\ app.searchResults["tech"] = NullList
    /\ issued > 1

\* C29: the progress a timer has counted and the width a progress bar is
\* left with never exceed 90 %: the timer stops at 90, and the 100 % that
\* completeProgress writes, on a success response only, is taken back by the
\* resetProgress of the finally block in the same run of the handler, so
\* that neither a timer callback nor a failed or rejected call leaves more
\* than 90 %; a timer callback paints what it has counted.
C29_ProgressCapped ==
    /\ [](\A b \in Bars :
            /\ uiManager.width[b] <= Pct(ProgressCap)
            /\ uiManager.progressIntervals[b].progress <= Pct(ProgressCap))
    /\ [][\A b \in Bars : ProgressTickWithin(b, MaxCapTicks) =>
             /\ uiManager'.width[b] <= Pct(ProgressCap)
             /\ uiManager'.width[b] = uiManager'.progressIntervals[b].progress]_vars
    /\ [][\A r \in inflight, o \in Outcomes \ {"success"} :
             (\/ KeywordsResponse(r, o, r.sid, <<>>)
              \/ TechResponse(r, o, <<"p1">>)
              \/ ConditionResponse(r, o, <<"p1">>)
              \/ ExcelResponse(r, o, <<"p1">>))
                => \A b \in Bars : uiManager'.width[b] <= uiManager.width[b]]_vars

\* C29 witness: a keyword generation is running and its timer has reached
\* 90 %, where the next callback would pass it.
C29_Witness ==
    /\ Outstanding("keywords") # {}
    /\ app.isSearching
    /\ uiManager.progressIntervals["progress-fill"].active
    /\ uiManager.width["progress-fill"] = Pct(ProgressCap)
    /\ uiManager.progressIntervals["progress-fill"].progress
          + uiManager.progressIntervals["progress-fill"].increment > Pct(ProgressCap)

\* C30 as stated: the error request() throws for a non-success response has
\* for message the body's detail field if the body has one, else its message
\* field if it has one, else the HTTP status text.
HttpErrorThrown ==
    /\ apiService.state = "thrown"
    /\ apiService.response # <<>>
    /\ ~apiService.response[1].ok

C31_UploadClassifiesAsRequest ==
    (/\ apiService.state = "thrown"
     /\ apiService.caller = "uploadAndAnalyzeExcel"
     /\ apiService.response # <<>>
     /\ ~apiService.response[1].ok)
        => apiService.error = errorDetail(apiService.response[1])

\* C32: the confirmed-search request has no field or logic of a condition,
\* and its selected_keywords is the list of the keywords of the rows, in
\* their overall order, without duplicates: the same keywords in the same
\* overall order gathered in one row, spread one to a row, or held under
\* other fields and logics give the same list.
RECURSIVE RowTexts(_)
RowTexts(rs) ==
    IF rs = <<>> THEN <<>>
    ELSE SelectSeq(spanTexts(Head(rs).keywords), NonBlank) \o RowTexts(Tail(rs))

\* The keywords of the rows gathered in one row, spread one to a row, and
\* left in their rows under other fields and logics.
Merged(rs) == << [keywords |-> RowTexts(rs), field |-> "CL", logic |-> "OR"] >>

Spread(rs) ==
    [n \in 1 .. Len(RowTexts(rs)) |->
        [keywords |-> <<RowTexts(rs)[n]>>, field |-> "TI", logic |-> "AND"]]

Reselected(rs) ==
    [n \in 1 .. Len(rs) |->
        [rs[n] EXCEPT !.field = IF @ = "CL" THEN "TI" ELSE "CL",
                      !.logic = IF @ = "OR" THEN "AND" ELSE "OR"]]

C32_SelectedKeywordsOnly ==
    [][\A r \in inflight' \ inflight : r.kind = "tech" =>
          /\ DOMAIN r = {"id", "kind", "sid", "description", "selected"}
          /\ r.selected = Unique(RowTexts(rows))
          /\ uniqueKeywords(collectSearchConditions(Merged(rows))) = r.selected
          /\ uniqueKeywords(collectSearchConditions(Spread(rows))) = r.selected
          /\ uniqueKeywords(collectSearchConditions(Reselected(rows))) = r.selected]_vars

\* C32 witness: two rows with different fields and logics share a keyword,
\* and the request in flight carries each keyword once.
C32_Witness ==
    /\ Len(rows) = 2
    /\ rows[1].field # rows[2].field
    /\ rows[1].logic # rows[2].logic
    /\ RowTexts(rows) = <<"k1", "k2", "k1">>
    /\ \E r \in Outstanding("tech") : r.selected = <<"k1", "k2">>

\* C33: a session id a component holds is never cleared, and it changes only
\* in the success handler of a keyword generation (to the backend's id) and
\* in reset() (to a fresh id).
SessionIds(a, sm, chat) ==
    <<a.currentSessionId, sm.currentSessionId, chat.currentSessionId>>

C33_SessionIdOnlyReplaced ==
    [][/\ \A n \in 1 .. 3 :
             SessionIds(app, searchManager, chatManager)[n] # Null
                => SessionIds(app, searchManager, chatManager)'[n] # Null
       /\ SessionIds(app, searchManager, chatManager)'
             # SessionIds(app, searchManager, chatManager)
          => \/ reset
             \/ \E r \in inflight : \E session_id \in BackendIssued(r) :
                   KeywordsResponse(r, "success", session_id, <<>>)]_vars

\* C34: between handlers PatentSearchApp, SearchManager and ChatManager hold
\* the same session id.
C34_SessionIdsAgree ==
    /\ app.currentSessionId = searchManager.currentSessionId
    /\ app.currentSessionId = chatManager.currentSessionId

\* C35: the key a confirmed search or a condition search is dispatched with
\* (the content of the key input, sent as user_code) is a key whose
\* verification succeeded; in particular it is a key testGpssConnection
\* sends for verification at all.
Verifiable(key) == testGpssConnectionMessage(key) = ""

C35_VerifiedKeySent ==
    [][\A key \in ApiKeys :
          (/\ inflight' # inflight
           /\ \/ manualSearch(key, MinDescriptionLength)
              \/ startConditionSearch(key, TRUE))
             => Verifiable(key)]_vars

\* C36: a start made while a technical-description search is running
\* (manualSearch, autoGenerateAndSearch and the executeSearch that follows
\* its delay) leaves the condition rows, the result stores, the session ids
\* and the busy flags as they were.
BusyStartStep ==
    \E key \in ApiKeys :
       \/ manualSearch(key, MinDescriptionLength)
       \/ autoGenerateAndSearch(key)
       \/ AutoDelayDone(MinDescriptionLength)

C36_BusyRejectionChangesNothing ==
    [][(app.isSearching /\ BusyStartStep)
          => /\ rows' = rows
             /\ app' = app
             /\ searchManager' = searchManager
             /\ excelManager' = excelManager
             /\ chatManager'.currentSessionId = chatManager.currentSessionId
             /\ inflight' = inflight]_vars

\* C37: the assistant entry pushed for the answer to a question carries the
\* memory mode the question was sent with (askWithMemory or
\* askSimpleQuestion), whatever has been toggled or asked in between.
C37_AnswerKeepsMemoryMode ==
    [][\A r \in inflight :
          ChatResponse(r, "success")
             => LastTurn(chatManager').memoryMode = (r.kind = "ask-with-memory")]_vars

\* C38: while an operation is running, a callback of its timer never paints
\* a width below the one the bar shows (the 10 % or 30 % set at the start,
\* or what an earlier callback painted).
C38_ProgressNonDecreasing ==
    [][\A b \in Bars :
          ProgressTickWithin(b, MaxCapTicks)
             => uiManager'.width[b] >= uiManager.width[b]]_vars

\* C39: between handlers the list SearchManager keeps for a search mode
\* (read by the export) and the one PatentSearchApp keeps (read by the
\* display) are the same, for the technical-description and the condition
\* mode, after successful searches, failed searches and reset().
C39_StoresAgree ==
    \A m \in {"tech", "condition"} :
       searchManager.searchResults[m] = app.searchResults[m]

\* C39 witness: after a reset() a condition search has succeeded with one
\* record, which both components hold, and neither holds a list for the
\* technical-description mode.
C39_Witness ==
    /\ issued > 1
    /\ app.searchResults["condition"] = <<"p1">>
    /\ searchManager.searchResults["condition"] = <<"p1">>
    /\ app.searchResults["tech"] = NullList
    /\ searchManager.searchResults["tech"] = NullList
    /\ inflight = {}

RetryFinished == retry.status \in {"returned", "thrown"}

C12_RetryAttempts ==
    /\ [](/\ retry.attempts <= retry.maxRetries + 1
          /\ retry.status = "returned"
                => /\ retry.result \in RequestReturns
                   /\ retry.lastError = retry.attempts - 1
          /\ retry.status = "thrown"
                => /\ retry.attempts = retry.maxRetries + 1
                   /\ retry.lastError = retry.attempts)
    /\ [][RetryFinished
            => \E n \in 0 .. MaxRetryCount, d \in RetryDelays :
                  requestWithRetry(n, d)]_vars

\* C12 witness: a call with the default retry count 3 has thrown after
\* exactly 4 attempts.
C12_Witness ==
    /\ retry.status = "thrown"
    /\ retry.maxRetries = DefaultMaxRetries
    /\ retry.attempts = 4
    /\ retry.lastError = 4

\* C13: the k-th wait of a call made with delay d lasts d * 2^(k-1); there
\* is one wait per retry: none after the attempt that returned and none
\* after the last failed attempt.
C13_RetryWaits ==
    /\ \A k \in 1 .. Len(retry.waits) : retry.waits[k] = retry.first * 2 ^ (k - 1)
    /\ retry.status \in {"requesting", "returned", "thrown"}
          => Len(retry.waits) = retry.attempts - 1
    /\ retry.status = "waiting" => Len(retry.waits) = retry.attempts

\* C13 witness: a call with delay 1000 and three retries has thrown after
\* waiting 1000, 2000 and 4000.
C13_Witness ==
    /\ retry.status = "thrown"
    /\ retry.waits = <<DefaultDelay, 2 * DefaultDelay, 4 * DefaultDelay>>

\* SpecChat: the chat handlers from the state in which the first confirmed
\* search has just succeeded and unlocked the chat. The session id is the
\* constructor's, or none after a keyword generation whose response carried
\* no session_id.
Unlocked(sid) ==
    LET chat == [chatEnabled |-> TRUE, memoryEnabled |-> TRUE,
                 chatHistory |-> <<>>, confirming |-> 0,
                 currentSessionId |-> sid, memoryStatus |-> "initial"]
    IN
    /\ app = [isSearching |-> FALSE, apiKeyVerified |-> TRUE,
              currentSessionId |-> sid,
              searchResults |-> [m \in Modes |->
                                   IF m = "tech" THEN <<"p1">> ELSE NullList]]
    /\ searchManager = [currentSessionId |-> sid, generatedKeywords |-> <<>>,
                        searchResults |-> [m \in {"tech", "condition"} |->
                                   IF m = "tech" THEN <<"p1">> ELSE NullList]]
    /\ chatManager = chat
    /\ excelManager = [selectedFile |-> FALSE, currentAnalysisResults |-> NullList,
                       isProcessing |-> FALSE]
    /\ uiManager = [progressIntervals |-> [b \in Bars |-> NoTimer],
                    width |-> [b \in Bars |-> 0],
                    patentList |-> [m \in Modes |->
                                   IF m = "tech" THEN <<"p1">> ELSE NullList]]
    /\ rows = << [keywords |-> <<"k1">>, field |-> "AB", logic |-> "AND"] >>
    /\ inflight = updateMemoryStatus({}, chat)
    /\ pendingAuto = 0
    /\ downloads = 0
    /\ issued = 1
    /\ retry = NoRetry
    /\ apiService = NoCall

InitChat == \E sid \in {1, Null} : Unlocked(sid)

NextChat ==
    \/ \E message \in ChatInputs : sendChatMessage(message)
    \/ \E r \in inflight, outcome \in Outcomes : ChatResponse(r, outcome)
    \/ toggleMemoryMode
    \/ \E checked \in BOOLEAN : UseMemoryChange(checked)
    \/ clearChatMemory
    \/ \E choice \in DialogChoices : ConfirmDialog(choice)
    \/ \E r \in inflight, outcome \in Outcomes : ClearMemoryResponse(r, outcome)
    \/ showChatHistory
    \/ \E r \in inflight : HistoryResponse(r)
    \/ \E r \in inflight, outcome \in Outcomes : MemoryStatusResponse(r, outcome)
    \/ reset

SpecChat == InitChat /\ [][NextChat]_vars

====
